---- MODULE Spec2Model ----
(***************************************************************************)
(* A model of dsub/lib/param_util.py: URI classification and rewriting,    *)
(* the file-parameter factories with their auto-name counters, the tasks   *)
(* file compiler, the command-line compiler and the submission validator.  *)
(*                                                                         *)
(* Strings are sequences of one-character strings, so that the string      *)
(* operations of the source (split, strip, replace, regular expressions)   *)
(* are computed character by character.                                    *)
(***************************************************************************)
EXTENDS Integers, Sequences, FiniteSets, TLC

VARIABLES
  arg_uri,      \* parse_uri: the raw URI given by the caller
  arg_recursive,\* parse_uri: the recursive flag
  relative_path,\* FileParamUtil._relative_path of the factory used
  env,          \* run -> [home, cwd]: the process environment of each run
  out,          \* run -> the outcome of parse_uri in that run (NoOut before)
  header,       \* tasks file: the header record (a sequence of tokens)
  rows,         \* tasks file: the data records read so far (sequences of cells)
  tasks,        \* the dict tasks without its path: keys among 'min', 'max'
  cli,          \* command line: the six token lists given to args_to_job_data
  auto_index,   \* role -> FileParamUtil._auto_index of that role's factory
  job_params,   \* the header-derived parameter descriptors
  job_data,     \* the task list built so far
  line_num,     \* csv reader.line_num: lines read so far, the header included
  diag,         \* line numbers reported through dsub_util.print_error
  pc,           \* position of the compiler: "start", "rows", "args", "done", "failed"
  err,          \* the error that ended the run ("" when none)
  logging,      \* validator: job_resources.logging
  all_task_data,\* validator: the task list to validate
  provider_name,\* validator: the name of the execution provider
  whitelist,    \* validator: [inputs, outputs, logging] -> set of providers
  verdict,      \* validator: NoOut before the call, then its outcome
  call,         \* a call of one module-level function: its name and arguments
  returned,       \* the outcome of that call (NoOut before it returns)
  sync,         \* how concurrent passes share a factory: "none", "lock", "own"
  lock,         \* the pass holding the callers' lock (0 when free)
  passes        \* pass -> its pending names, position, locals and results

vars == <<arg_uri, arg_recursive, relative_path, env, out, header, rows, tasks,
          cli, auto_index, job_params, job_data, line_num, diag,
          pc, err, logging, all_task_data, provider_name, whitelist, verdict,
          call, returned, sync, lock, passes>>

uriVars == <<arg_uri, arg_recursive, relative_path, env, out>>
tableVars == <<header, rows, tasks, cli, auto_index, job_params,
               job_data, line_num, diag, pc, err>>
submitVars == <<logging, all_task_data, provider_name, whitelist, verdict>>
callVars == <<call, returned>>
passVars == <<sync, lock, passes>>

-----------------------------------------------------------------------------
(* Program constants.                                                      *)

AUTO_PREFIX_INPUT == <<"I","N","P","U","T","_">>
AUTO_PREFIX_OUTPUT == <<"O","U","T","P","U","T","_">>
P_LOCAL == "local"
P_GCS == "google-cloud-storage"
FILE_PROVIDERS == {P_LOCAL, P_GCS}
\* Python's None where a string may stand: a value no string equals
None == <<"None">>
NoOut == [status |-> "pending"]

-----------------------------------------------------------------------------
(* Characters and strings.                                                 *)

LowerLetters == <<"a","b","c","d","e","f","g","h","i","j","k","l","m",
                  "n","o","p","q","r","s","t","u","v","w","x","y","z">>
UpperLetters == <<"A","B","C","D","E","F","G","H","I","J","K","L","M",
                  "N","O","P","Q","R","S","T","U","V","W","X","Y","Z">>
Digits == <<"0","1","2","3","4","5","6","7","8","9">>

Range(s) == {s[i] : i \in 1..Len(s)}
IsLower(c) == c \in Range(LowerLetters)
IsUpper(c) == c \in Range(UpperLetters)
IsDigit(c) == c \in Range(Digits)
IsAlpha(c) == IsLower(c) \/ IsUpper(c)

\* str.lower() on one character
LowerChar(c) ==
  IF IsUpper(c)
    THEN LowerLetters[CHOOSE i \in 1..26 : UpperLetters[i] = c]
    ELSE c
ToLower(s) == [i \in 1..Len(s) |-> LowerChar(s[i])]

\* str(n) for a natural number
RECURSIVE IntToStr(_)
IntToStr(n) ==
  IF n < 10 THEN <<Digits[n + 1]>>
  ELSE IntToStr(n \div 10) \o <<Digits[(n % 10) + 1]>>

\* s[n:] and s[:n]
Drop(s, n) == IF n >= Len(s) THEN <<>> ELSE SubSeq(s, n + 1, Len(s))
Take(s, n) == IF n >= Len(s) THEN s ELSE SubSeq(s, 1, n)

\* s.startswith(p), s.endswith(p), p in s
StartsWith(s, p) == Len(p) <= Len(s) /\ SubSeq(s, 1, Len(p)) = p
EndsWith(s, p) ==
  Len(p) <= Len(s) /\ SubSeq(s, Len(s) - Len(p) + 1, Len(s)) = p
Contains(s, p) ==
  \E i \in 0..(Len(s) - Len(p)) : SubSeq(s, i + 1, i + Len(p)) = p

\* s.rstrip(chars), s.lstrip(chars): chars is a set of characters
RECURSIVE RStrip(_, _)
RStrip(s, chars) ==
  IF s # <<>> /\ s[Len(s)] \in chars
    THEN RStrip(SubSeq(s, 1, Len(s) - 1), chars)
    ELSE s
RECURSIVE LStrip(_, _)
LStrip(s, chars) ==
  IF s # <<>> /\ s[1] \in chars THEN LStrip(Tail(s), chars) ELSE s

\* s.replace(old, new, 1): the first occurrence only
RECURSIVE ReplaceFirst(_, _, _)
ReplaceFirst(s, old, new) ==
  IF Len(s) < Len(old) THEN s
  ELSE IF StartsWith(s, old) THEN new \o Drop(s, Len(old))
  ELSE <<s[1]>> \o ReplaceFirst(Tail(s), old, new)

\* re.sub of a literal pattern: every non-overlapping occurrence, left to
\* right, the replacement text is not scanned again
RECURSIVE ReplaceAll(_, _, _)
ReplaceAll(s, old, new) ==
  IF Len(s) < Len(old) THEN s
  ELSE IF StartsWith(s, old)
    THEN new \o ReplaceAll(Drop(s, Len(old)), old, new)
  ELSE <<s[1]>> \o ReplaceAll(Tail(s), old, new)

\* re.sub of '^' + a literal pattern: a replacement at the start only
ReplacePrefix(s, old, new) ==
  IF StartsWith(s, old) THEN new \o Drop(s, Len(old)) ELSE s

\* s.split('/'): the components between slashes (always at least one)
RECURSIVE SplitSlash(_)
SplitSlash(s) ==
  IF \A i \in 1..Len(s) : s[i] # "/" THEN <<s>>
  ELSE LET i == CHOOSE k \in 1..Len(s) :
                  s[k] = "/" /\ \A j \in 1..(k - 1) : s[j] # "/"
       IN <<Take(s, i - 1)>> \o SplitSlash(Drop(s, i))

\* '/'.join(comps)
RECURSIVE JoinSlash(_)
JoinSlash(comps) ==
  IF comps = <<>> THEN <<>>
  ELSE IF Len(comps) = 1 THEN comps[1]
  ELSE comps[1] \o <<"/">> \o JoinSlash(Tail(comps))

\* s.rfind('/') + 1: the length of the part up to and including the last '/'
LastSlash(s) ==
  IF \E i \in 1..Len(s) : s[i] = "/"
    THEN CHOOSE i \in 1..Len(s) :
           s[i] = "/" /\ \A j \in (i + 1)..Len(s) : s[j] # "/"
    ELSE 0

-----------------------------------------------------------------------------
(* posixpath, as used by the source.                                       *)

\* os.path.split(p) = <<head, tail>>
PathSplit(p) ==
  LET i == LastSlash(p)
      head == Take(p, i)
      tail == Drop(p, i)
  IN IF head # <<>> /\ \E k \in 1..Len(head) : head[k] # "/"
       THEN <<RStrip(head, {"/"}), tail>>
       ELSE <<head, tail>>
Dirname(p) == PathSplit(p)[1]
Basename(p) == PathSplit(p)[2]

\* os.path.join(a, b)
PathJoin(a, b) ==
  IF StartsWith(b, <<"/">>) THEN b
  ELSE IF a = <<>> \/ EndsWith(a, <<"/">>) THEN a \o b
  ELSE a \o <<"/">> \o b

\* the component loop of os.path.normpath
RECURSIVE NormComps(_, _, _)
NormComps(comps, new_comps, initial_slashes) ==
  IF comps = <<>> THEN new_comps
  ELSE LET comp == Head(comps) IN
    IF comp = <<>> \/ comp = <<".">>
      THEN NormComps(Tail(comps), new_comps, initial_slashes)
    ELSE IF \/ comp # <<".", ".">>
            \/ (initial_slashes = 0 /\ new_comps = <<>>)
            \/ (new_comps # <<>> /\ new_comps[Len(new_comps)] = <<".", ".">>)
      THEN NormComps(Tail(comps), Append(new_comps, comp), initial_slashes)
    ELSE IF new_comps # <<>>
      THEN NormComps(Tail(comps), SubSeq(new_comps, 1, Len(new_comps) - 1),
                     initial_slashes)
    ELSE NormComps(Tail(comps), new_comps, initial_slashes)

\* os.path.normpath(path)
NormPath(path) ==
  IF path = <<>> THEN <<".">>
  ELSE
    LET initial_slashes ==
          IF ~StartsWith(path, <<"/">>) THEN 0
          ELSE IF StartsWith(path, <<"/", "/">>)
                  /\ ~StartsWith(path, <<"/", "/", "/">>) THEN 2
          ELSE 1
        joined == JoinSlash(NormComps(SplitSlash(path), <<>>, initial_slashes))
        result == [i \in 1..initial_slashes |-> "/"] \o joined
    IN IF result = <<>> THEN <<".">> ELSE result

\* os.path.abspath(path) in a process whose working directory is cwd
AbsPath(path, cwd) ==
  IF StartsWith(path, <<"/">>) THEN NormPath(path)
  ELSE NormPath(PathJoin(cwd, path))

\* directory_fmt without the rstrip: a '/' is appended to whatever is given
directory_fmt_appendOnly(directory) == directory \o <<"/">>
\* directory_fmt(directory)
directory_fmt(directory) == RStrip(directory, {"/"}) \o <<"/">>

-----------------------------------------------------------------------------
(* FileParamUtil: provider detection, path policy, URI rewriting.          *)

S_home == <<"~", "/">>
S_dot_slash == <<".", "/">>
S_dotdot == <<".", ".">>
S_slash_dotdot == <<"/", ".", ".">>
S_file1 == <<"f","i","l","e",":","/">>
S_file3 == <<"f","i","l","e",":","/","/","/">>
S_file_dir == <<"f","i","l","e","/">>
S_gs_scheme == <<"g","s",":","/","/">>
S_gs_dir == <<"g","s","/">>
S_sep == <<":","/","/">>
S_rw_dotdot == <<"_","d","o","t","d","o","t","_">>
S_rw_home == <<"_","h","o","m","e","_","/">>
S_log == <<".","l","o","g">>

\* the character class [A-Za-z0-9+.-] of the scheme detector
IsSchemeChar(c) == IsAlpha(c) \/ IsDigit(c) \/ c \in {"+", ".", "-"}

\* the longest prefix of s made of scheme characters
RECURSIVE SchemeRun(_)
SchemeRun(s) ==
  IF s # <<>> /\ IsSchemeChar(s[1]) THEN <<s[1]>> \o SchemeRun(Tail(s))
  ELSE <<>>

\* the longest scheme the pattern ^([A-Za-z][A-Za-z0-9+.-]{0,29}):// admits
SchemeMaxLen == 30

\* re.match(r'^([A-Za-z][A-Za-z0-9+.-]{0,29})://', uri): group 1, or None.
\* ':' is not a scheme character, so the only candidate is the whole run.
SchemeGroup_noLengthCap(uri, run) ==
  IF /\ Len(run) >= 1
     /\ IsAlpha(run[1])
     /\ StartsWith(Drop(uri, Len(run)), S_sep)
    THEN run
    ELSE None
SchemeGroup(uri, run) ==
  IF /\ Len(run) >= 1
     /\ Len(run) <= SchemeMaxLen
     /\ IsAlpha(run[1])
     /\ StartsWith(Drop(uri, Len(run)), S_sep)
    THEN run
    ELSE None
SchemeMatch(uri) == SchemeGroup(uri, SchemeRun(uri))

\* FileParamUtil.parse_file_provider(uri): the provider, or the error raised
\* lines 426-432: the lower-cased scheme, 'file' when none was found
SchemePrefix(provider_found) ==
  IF provider_found # None THEN ToLower(provider_found)
  ELSE <<"f","i","l","e">>
\* lines 422, 433-436: the providers dict
ProviderOf(prefix) ==
  IF prefix = <<"g","s">> THEN P_GCS
  ELSE IF prefix = <<"f","i","l","e">> THEN P_LOCAL
  ELSE "UnsupportedProvider"
parse_file_provider(uri) == ProviderOf(SchemePrefix(SchemeMatch(uri)))

\* FileParamUtil._validate_paths_or_fail(uri, recursive): "ok" or the error
\* lines 447-469, on the pair os.path.split(uri) of line 441
ValidateSplit_noDoubleStar(uri, path, filename, rec) ==
  IF "[" \in Range(uri) \/ "]" \in Range(uri) THEN "UnsupportedPathPattern"
  ELSE IF "?" \in Range(uri) THEN "UnsupportedPathPattern"
  ELSE IF "*" \in Range(path) THEN "UnsupportedPathPattern"
  ELSE IF filename \in {S_dotdot, <<".">>} THEN "UnsupportedPathPattern"
  ELSE IF ~rec /\ filename = <<>> THEN "UnsupportedPathPattern"
  ELSE "ok"
ValidateSplit(uri, path, filename, rec) ==
  IF "[" \in Range(uri) \/ "]" \in Range(uri) THEN "UnsupportedPathPattern"
  ELSE IF "?" \in Range(uri) THEN "UnsupportedPathPattern"
  ELSE IF "*" \in Range(path) THEN "UnsupportedPathPattern"
  ELSE IF Contains(filename, <<"*", "*">>) THEN "UnsupportedPathPattern"
  ELSE IF filename \in {S_dotdot, <<".">>} THEN "UnsupportedPathPattern"
  ELSE IF ~rec /\ filename = <<>> THEN "UnsupportedPathPattern"
  ELSE "ok"
validate_paths_or_fail(uri, rec) ==
  ValidateSplit(uri, PathSplit(uri)[1], PathSplit(uri)[2], rec)

\* one step of the prefix_replacements loop of _local_uri_rewriter
PrefixReplace(normed_path, prefix, replacement) ==
  IF StartsWith(normed_path, prefix)
    THEN PathJoin(replacement, Drop(normed_path, Len(prefix)))
    ELSE normed_path

\* the normalized URI of _local_uri_rewriter (lines 375-384)
LocalNormedUri(raw_uri, home, cwd) ==
  PathJoin(
    directory_fmt(
      AbsPath(
        PrefixReplace(
          PrefixReplace(
            PrefixReplace(
              PrefixReplace(PathSplit(raw_uri)[1], S_file3, <<"/">>),
              S_home, home),
            S_dot_slash, <<>>),
          S_file1, <<"/">>),
        cwd)),
    PathSplit(raw_uri)[2])

\* the docker_rewrites loop with its first rule ('/\.\.' -> '/_dotdot_') lost
DockerRewrites_noSlashRule(docker_path) ==
  ReplacePrefix(
    ReplacePrefix(
      ReplacePrefix(docker_path, S_dotdot, S_rw_dotdot),
      S_home, S_rw_home),
    S_file1, <<>>)

\* the docker_rewrites loop of _local_uri_rewriter, applied in order
DockerRewrites(docker_path) ==
  ReplacePrefix(
    ReplacePrefix(
      ReplacePrefix(
        ReplaceAll(docker_path, S_slash_dotdot, <<"/">> \o S_rw_dotdot),
        S_dotdot, S_rw_dotdot),
      S_home, S_rw_home),
    S_file1, <<>>)

\* the docker path of _local_uri_rewriter (lines 391-397)
LocalDockerPath(raw_uri) ==
  directory_fmt(
    S_file_dir
      \o LStrip(DockerRewrites(NormPath(PathSplit(raw_uri)[1])), {".", "/"}))
    \o PathSplit(raw_uri)[2]

\* _local_uri_rewriter deriving the docker path from the resolved absolute
\* path instead of the raw one
local_uri_rewriter_resolved(raw_uri, home, cwd) ==
  <<LocalNormedUri(raw_uri, home, cwd),
    S_file_dir \o LStrip(LocalNormedUri(raw_uri, home, cwd), {"/"})>>

\* FileParamUtil._local_uri_rewriter(raw_uri) = <<normed_uri, docker_path>>
local_uri_rewriter(raw_uri, home, cwd) ==
  <<LocalNormedUri(raw_uri, home, cwd), LocalDockerPath(raw_uri)>>

\* FileParamUtil._gcs_uri_rewriter(raw_uri) = <<normalized, docker_path>>
gcs_uri_rewriter(raw_uri) ==
  <<raw_uri, ReplaceFirst(raw_uri, S_gs_scheme, S_gs_dir)>>

\* FileParamUtil.rewrite_uris(raw_uri, file_provider): the pair
\* <<normalized, docker_path>>, or the ValueError of line 336 for a provider
\* that is neither P_GCS nor P_LOCAL
UnderRoot(relpath, pair) == <<pair[1], PathJoin(relpath, pair[2])>>
rewrite_uris(relpath, uri, file_provider, home, cwd) ==
  IF file_provider = P_GCS THEN UnderRoot(relpath, gcs_uri_rewriter(uri))
  ELSE IF file_provider = P_LOCAL
    THEN UnderRoot(relpath, local_uri_rewriter(uri, home, cwd))
  ELSE [status |-> "ValueError"]

\* UriParts.__new__(cls, path, basename)
UriParts(path, basename) ==
  [uri |-> path \o basename, path |-> path, basename |-> basename]

\* FileParamUtil.parse_uri(raw_uri, recursive): the outcome, with the error
\* raised in status, or status "ok" and docker_uri, uri_parts, file_provider.
\* normalized is the local variable uri of line 480.
\* lines 481-483: what parse_uri returns for the pair rewrite_uris returned
ParseUriResult(rw, file_provider) ==
  [status |-> "ok", docker_uri |-> rw[2],
   uri_parts |-> UriParts(directory_fmt(Dirname(rw[1])), Basename(rw[1])),
   file_provider |-> file_provider, normalized |-> rw[1]]
\* lines 478-480: the error of the detector first, of the path policy next
ParseUriChecked(relpath, uri, file_provider, valid, home, cwd) ==
  IF file_provider \notin FILE_PROVIDERS THEN [status |-> file_provider]
  ELSE IF valid # "ok" THEN [status |-> valid]
  ELSE ParseUriResult(rewrite_uris(relpath, uri, file_provider, home, cwd),
                      file_provider)
\* lines 476-483, on the URI after line 475
ParseUriFrom(relpath, uri, rec, home, cwd) ==
  ParseUriChecked(relpath, uri, parse_file_provider(uri),
                  validate_paths_or_fail(uri, rec), home, cwd)
parse_uri(relpath, raw, rec, home, cwd) ==
  ParseUriFrom(relpath, IF rec THEN directory_fmt(raw) ELSE raw, rec,
               home, cwd)

-----------------------------------------------------------------------------
(* Parameter classes and the auto-naming factories.                        *)

LabelMaxLen == 63

\* a string or None used as a condition: None and '' are false
Truthy(v) == v # None /\ v # <<>>

\* the part of s a pattern ending in $ has to match: re's $ matches at the
\* end of the string and just before a newline that ends the string
BeforeDollar(s) ==
  IF Len(s) >= 1 /\ s[Len(s)] = "\n" THEN Take(s, Len(s) - 1) ELSE s

\* re.match(r'^[a-zA-Z_][a-zA-Z0-9_]*$', name) (line 43)
NameMatch(core) ==
  /\ Len(core) >= 1
  /\ (IsAlpha(core[1]) \/ core[1] = "_")
  /\ \A i \in 2..Len(core) :
       IsAlpha(core[i]) \/ IsDigit(core[i]) \/ core[i] = "_"

\* validate_param_name(name, param_type): "ok" or the error raised
\* (re.match on None raises TypeError)
validate_param_name(name) ==
  IF name = None THEN "TypeError"
  ELSE IF NameMatch(BeforeDollar(name)) THEN "ok"
  ELSE "InvalidName"

\* re.match(r'^[a-z]([-_a-z0-9]*)?$', param_value) (line 185)
LabelMatch(core) ==
  /\ Len(core) >= 1
  /\ IsLower(core[1])
  /\ \A i \in 2..Len(core) :
       IsLower(core[i]) \/ IsDigit(core[i]) \/ core[i] \in {"-", "_"}

\* LabelParam._check_label_rule(param_value, param_type)
check_label_rule(param_value) ==
  IF param_value = None THEN "TypeError"
  ELSE IF Len(param_value) < 1 \/ Len(param_value) > LabelMaxLen
    THEN "InvalidLabel"
  ELSE IF LabelMatch(BeforeDollar(param_value)) THEN "ok"
  ELSE "InvalidLabel"

RESERVED_LABELS ==
  { <<"j","o","b","-","n","a","m","e">>, <<"j","o","b","-","i","d">>,
    <<"u","s","e","r","-","i","d">>, <<"t","a","s","k","-","i","d">>,
    <<"d","s","u","b","-","v","e","r","s","i","o","n">> }

\* cls.validate_label(name, value) of a class whose _allow_reserved_keys is
\* allow_reserved_keys
LabelChecked(allow_reserved_keys, name, name_rule, value, value_rule) ==
  IF name_rule # "ok" THEN name_rule
  ELSE IF Truthy(value) /\ value_rule # "ok" THEN value_rule
  ELSE IF ~allow_reserved_keys /\ name \in RESERVED_LABELS THEN "InvalidLabel"
  ELSE "ok"
validate_label_of(allow_reserved_keys, name, value) ==
  LabelChecked(allow_reserved_keys, name, check_label_rule(name),
               value, check_label_rule(value))
\* LabelParam.validate_label(name, value): _allow_reserved_keys is False
validate_label(name, value) == validate_label_of(FALSE, name, value)

\* Python's None in a field that otherwise holds a UriParts, and in a field
\* that otherwise holds a provider name
NoUri == [none |-> TRUE]
NoProvider == "None"

\* __new__ of a parameter class: the validation raises, or the tuple is built
Constructed(valid, param) ==
  IF valid # "ok" THEN [status |-> valid]
  ELSE [status |-> "ok", param |-> param]

\* EnvParam(name, value): the parameter, or the error raised
EnvParam(name, value) ==
  Constructed(validate_param_name(name),
              [cls |-> "EnvParam", name |-> name, value |-> value])

\* LabelParam(name, value)
LabelParam(name, value) ==
  Constructed(validate_label(name, value),
              [cls |-> "LabelParam", name |-> name, value |-> value])

\* InputFileParam(...) and OutputFileParam(...): cls names the class
FileParam(cls, name, value, docker_path, uri, rec, file_provider) ==
  Constructed(validate_param_name(name),
              [cls |-> cls, name |-> name, value |-> value,
               docker_path |-> docker_path, uri |-> uri,
               recursive |-> rec, file_provider |-> file_provider])

\* the two factories of a compiler run: InputFileParamUtil(docker_path) and
\* OutputFileParamUtil(docker_path)
Roles == {"inputs", "outputs"}
AutoPrefix(role) ==
  IF role = "inputs" THEN AUTO_PREFIX_INPUT ELSE AUTO_PREFIX_OUTPUT
ParamClass(role) ==
  IF role = "inputs" THEN "InputFileParam" ELSE "OutputFileParam"
UtilRoot(role) ==
  IF role = "inputs" THEN <<"/", "i", "n">> ELSE <<"/", "o", "u", "t">>

\* get_variable_name with line 283 left out: the counter is never advanced
get_variable_name_noIncrement(auto_prefix, index, name) ==
  IF ~Truthy(name) THEN <<auto_prefix \o IntToStr(index), index>>
  ELSE <<name, index>>

\* FileParamUtil.get_variable_name(name) = <<name, _auto_index afterwards>>
get_variable_name(auto_prefix, index, name) ==
  IF ~Truthy(name) THEN <<auto_prefix \o IntToStr(index), index + 1>>
  ELSE <<name, index>>

\* FileParamUtil.make_param(name, raw_uri, recursive) of the role's factory
MadeParam(role, name, raw, rec, parsed) ==
  IF parsed.status # "ok" THEN [status |-> parsed.status]
  ELSE FileParam(ParamClass(role), name, raw, parsed.docker_uri,
                 parsed.uri_parts, rec, parsed.file_provider)
make_param(role, name, raw, rec, e) ==
  MadeParam(role, name, raw, rec,
            parse_uri(UtilRoot(role), raw, rec, e.home, e.cwd))

\* str.split(separator, 1): the index of the first separator, 0 when absent
FirstIndex(s, separator) ==
  IF \E i \in 1..Len(s) : s[i] = separator
    THEN CHOOSE i \in 1..Len(s) :
           s[i] = separator /\ \A j \in 1..(i - 1) : s[j] # separator
    ELSE 0

\* split_pair(pair_string, separator, nullable_idx): the pair, or IndexError
\* when the separator is absent and nullable_idx is neither 0 nor 1
SplitAt(pair_string, i, nullable_idx) ==
  IF i = 0
    THEN IF nullable_idx = 0 THEN <<None, pair_string>>
         ELSE IF nullable_idx = 1 THEN <<pair_string, None>>
         ELSE [status |-> "IndexError"]
    ELSE <<Take(pair_string, i - 1), Drop(pair_string, i)>>
split_pair(pair_string, separator, nullable_idx) ==
  SplitAt(pair_string, FirstIndex(pair_string, separator), nullable_idx)

-----------------------------------------------------------------------------
(* The tasks file compiler.                                                *)

T_env == <<"-","-","e","n","v">>
T_label == <<"-","-","l","a","b","e","l">>
T_input == <<"-","-","i","n","p","u","t">>
T_output == <<"-","-","o","u","t","p","u","t">>
T_recursive == <<"r","e","c","u","r","s","i","v","e">>

FileColumnTypes ==
  { T_input, T_input \o <<"-">> \o T_recursive,
    T_output, T_output \o <<"-">> \o T_recursive }
ColumnRole(col_type) ==
  IF StartsWith(col_type, T_input) THEN "inputs" ELSE "outputs"

\* lines 591-605: a file column, named = get_variable_name(col_value)
FileColumn(col_type, named, index) ==
  [made |-> FileParam(ParamClass(ColumnRole(col_type)), named[1], None, None,
                      NoUri, EndsWith(col_type, T_recursive), P_GCS),
   index |-> [index EXCEPT ![ColumnRole(col_type)] = named[2]]]

\* lines 585-608: the descriptor appended for a column of type col_type and
\* value col_value and the counters afterwards, or the error raised
TypedColumn(col_type, col_value, index) ==
  IF col_type = T_env
    THEN [made |-> EnvParam(col_value, None), index |-> index]
  ELSE IF col_type = T_label
    THEN [made |-> LabelParam(col_value, None), index |-> index]
  ELSE IF col_type \in FileColumnTypes
    THEN FileColumn(col_type,
                    get_variable_name(AutoPrefix(ColumnRole(col_type)),
                                      index[ColumnRole(col_type)], col_value),
                    index)
  ELSE [made |-> [status |-> "UnrecognizedColumn"], index |-> index]

\* lines 580-583: the type and the value of a column
ColumnPair(col) ==
  IF StartsWith(col, <<"-">>) THEN split_pair(col, " ", 1) ELSE <<T_env, col>>

\* the body of the loop of parse_tasks_file_header for one column
HeaderColumnOf(pair, index) == TypedColumn(pair[1], pair[2], index)
HeaderColumn(col, index) == HeaderColumnOf(ColumnPair(col), index)

\* parse_tasks_file_header(header, input_file_param_util,
\* output_file_param_util): the columns from position i on
RECURSIVE HeaderLoop(_, _, _, _)
HeaderStep(hdr, i, params, c) ==
  IF c.made.status # "ok"
    THEN [status |-> c.made.status, job_params |-> params, index |-> c.index]
    ELSE HeaderLoop(hdr, i + 1, Append(params, c.made.param), c.index)
HeaderLoop(hdr, i, params, index) ==
  IF i > Len(hdr) THEN [status |-> "ok", job_params |-> params, index |-> index]
  ELSE HeaderStep(hdr, i, params, HeaderColumn(hdr[i], index))

parse_tasks_file_header(hdr, index) == HeaderLoop(hdr, 1, <<>>, index)

\* the loop body reading row[0] where the code reads row[i]
RowColumn_firstCell(param, row, i, e) ==
  IF i > Len(row) THEN [status |-> "IndexError"]
  ELSE IF param.cls = "EnvParam" THEN EnvParam(param.name, row[1])
  ELSE IF param.cls = "LabelParam" THEN LabelParam(param.name, row[1])
  ELSE IF param.cls = "InputFileParam"
    THEN make_param("inputs", param.name, row[1], param.recursive, e)
  ELSE make_param("outputs", param.name, row[1], param.recursive, e)

\* the body of the loop over the columns of one row (lines 667-682): the
\* parameter built for column i, or the error raised (row[i] past the end of
\* the row raises IndexError before anything is built)
RowColumn(param, row, i, e) ==
  IF i > Len(row) THEN [status |-> "IndexError"]
  ELSE IF param.cls = "EnvParam" THEN EnvParam(param.name, row[i])
  ELSE IF param.cls = "LabelParam" THEN LabelParam(param.name, row[i])
  ELSE IF param.cls = "InputFileParam"
    THEN make_param("inputs", param.name, row[i], param.recursive, e)
  ELSE make_param("outputs", param.name, row[i], param.recursive, e)

\* the list of the task a parameter class is appended to
ListOf(cls) ==
  IF cls = "EnvParam" THEN "envs"
  ELSE IF cls = "LabelParam" THEN "labels"
  ELSE IF cls = "InputFileParam" THEN "inputs"
  ELSE "outputs"

\* the loop over the columns of one row, from column i on
RECURSIVE RowLoop(_, _, _, _, _)
RowStep(params, row, i, task, e, c) ==
  IF c.status # "ok" THEN [status |-> c.status]
  ELSE RowLoop(params, row, i + 1,
               [task EXCEPT ![ListOf(c.param.cls)] = Append(@, c.param)], e)
RowLoop(params, row, i, task, e) ==
  IF i > Len(params) THEN [status |-> "ok", task |-> task]
  ELSE RowStep(params, row, i, task, e, RowColumn(params[i], row, i, e))

\* the record appended to job_data for one row (lines 661-690)
RowTask(params, row, task_id, e) ==
  RowLoop(params, row, 1,
          [task_id |-> task_id, labels |-> <<>>, envs |-> <<>>,
           inputs |-> <<>>, outputs |-> <<>>], e)

\* the lines of the file one record takes: csv.reader reads a quoted cell
\* that holds newlines over as many further lines, and reader.line_num counts
\* the lines read
RECURSIVE CellNewlines(_, _)
CellNewlines(cell, i) ==
  IF i > Len(cell) THEN 0
  ELSE (IF cell[i] = "\n" THEN 1 ELSE 0) + CellNewlines(cell, i + 1)
RECURSIVE RowNewlines(_, _)
RowNewlines(row, i) ==
  IF i > Len(row) THEN 0
  ELSE CellNewlines(row[i], 1) + RowNewlines(row, i + 1)
RecordLines(row) == 1 + RowNewlines(row, 1)

\* tasks.get(key) used as a condition and as a bound (lines 635-636, 652-655)
TaskBound(key) == key \in DOMAIN tasks /\ tasks[key] # 0

\* the two continue statements of the row loop (lines 652-655)
Skipped(task_id) ==
  \/ TaskBound("min") /\ task_id < tasks["min"]
  \/ TaskBound("max") /\ task_id > tasks["max"]

-----------------------------------------------------------------------------
(* The command-line compiler.                                              *)

\* parse_pair_args(labels, argclass): argclass(name, value) on a split pair
PairArg(argclass, pair) ==
  IF argclass = "EnvParam" THEN EnvParam(pair[1], pair[2])
  ELSE LabelParam(pair[1], pair[2])

\* parse_pair_args(labels, argclass), from argument i on
RECURSIVE PairArgs(_, _, _, _)
PairStep(argclass, args, i, acc, made) ==
  IF made.status # "ok" THEN [status |-> made.status]
  ELSE PairArgs(argclass, args, i + 1, Append(acc, made.param))
PairArgs(argclass, args, i, acc) ==
  IF i > Len(args) THEN [status |-> "ok", data |-> acc]
  ELSE PairStep(argclass, args, i, acc,
                PairArg(argclass, split_pair(args[i], "=", 1)))
parse_pair_args(labels, argclass) == PairArgs(argclass, labels, 1, <<>>)

\* the pairs (recursive, arg) the loops of lines 760-765 and 772-777 visit
FlagArgs(plain, rec_args) ==
  [i \in 1..Len(plain) |-> [recursive |-> FALSE, arg |-> plain[i]]]
    \o [i \in 1..Len(rec_args) |-> [recursive |-> TRUE, arg |-> rec_args[i]]]

\* the loops of lines 760-765 (role inputs) and 772-777 (role outputs)
RECURSIVE FileArgs(_, _, _, _, _, _)
FileArgStep(role, flagged, i, acc, e, index, made) ==
  IF made.status # "ok"
    THEN [status |-> made.status, data |-> acc, index |-> index]
    ELSE FileArgs(role, flagged, i + 1, index, Append(acc, made.param), e)
\* lines 763-765: named = get_variable_name(name), value the URI half
FileArgNamed(role, flagged, i, acc, e, named, value) ==
  FileArgStep(role, flagged, i, acc, e, named[2],
              make_param(role, named[1], value, flagged[i].recursive, e))
\* line 762: pair = split_pair(arg, '=', nullable_idx=0)
FileArgPair(role, flagged, i, index, acc, e, pair) ==
  FileArgNamed(role, flagged, i, acc, e,
               get_variable_name(AutoPrefix(role), index, pair[1]), pair[2])
FileArgs(role, flagged, i, index, acc, e) ==
  IF i > Len(flagged) THEN [status |-> "ok", data |-> acc, index |-> index]
  ELSE FileArgPair(role, flagged, i, index, acc, e,
                   split_pair(flagged[i].arg, "=", 0))

\* lines 752-784 on the four lists built: the first error raised, in the
\* order the lists are built, or the single task
JobDataOf(env_data, label_data, input_data, output_data, index) ==
  IF env_data.status # "ok"
    THEN [status |-> env_data.status, index |-> index]
  ELSE IF label_data.status # "ok"
    THEN [status |-> label_data.status, index |-> index]
  ELSE IF input_data.status # "ok"
    THEN [status |-> input_data.status,
          index |-> [index EXCEPT !["inputs"] = input_data.index]]
  ELSE IF output_data.status # "ok"
    THEN [status |-> output_data.status,
          index |-> [inputs |-> input_data.index,
                     outputs |-> output_data.index]]
  ELSE [status |-> "ok",
        index |-> [inputs |-> input_data.index,
                   outputs |-> output_data.index],
        job_data |-> <<[envs |-> env_data.data, inputs |-> input_data.data,
                        outputs |-> output_data.data,
                        labels |-> label_data.data]>>]

\* args_to_job_data(envs, labels, inputs, inputs_recursive, outputs,
\* outputs_recursive, input_file_param_util, output_file_param_util)
args_to_job_data(a, index, e) ==
  JobDataOf(parse_pair_args(a.envs, "EnvParam"),
            parse_pair_args(a.labels, "LabelParam"),
            FileArgs("inputs", FlagArgs(a.inputs, a.inputs_recursive),
                     1, index["inputs"], <<>>, e),
            FileArgs("outputs", FlagArgs(a.outputs, a.outputs_recursive),
                     1, index["outputs"], <<>>, e),
            index)

-----------------------------------------------------------------------------
(* The inputs the specifications draw from.                                *)

MaxBody == 4

UriPrefixes ==
  { <<>>, <<"/">>, S_dot_slash, <<".", ".", "/">>, S_home, S_gs_scheme,
    <<"G","S",":","/","/">>, S_file1, S_file1 \o <<"/">>, S_file3,
    <<"f","t","p",":","/","/">> }
BodyAlphabet == {"a", ".", "/", "*"}
Bodies == UNION {[1..n -> BodyAlphabet] : n \in 0..MaxBody}
RawUris == {p \o b : p \in UriPrefixes, b \in Bodies}

\* mount roots: '' is what build_logging_param passes to its factory
Roots == {<<>>, <<"/", "m">>}

\* process environments: os.getenv('HOME') and os.getcwd()
EnvA == [home |-> <<"/", "h">>, cwd |-> <<"/", "c">>]
EnvB == [home |-> <<"/", "u", "/", "v">>, cwd |-> <<"/", "w">>]
Envs == {EnvA, EnvB}
Runs == {1, 2}

TableIdle ==
  /\ header = <<>> /\ rows = <<>> /\ tasks = <<>>
  /\ cli = <<>> /\ auto_index = <<>> /\ job_params = <<>> /\ job_data = <<>>
  /\ line_num = 0 /\ diag = <<>> /\ pc = "idle" /\ err = ""
SubmitIdle ==
  /\ logging = None /\ all_task_data = <<>> /\ provider_name = ""
  /\ whitelist = <<>>
  /\ verdict = NoOut
UriIdle ==
  /\ arg_uri = <<>> /\ arg_recursive = FALSE /\ relative_path = <<>>
  /\ env = <<>> /\ out = <<>>
CallIdle == call = <<>> /\ returned = NoOut
PassIdle == sync = "none" /\ lock = 0 /\ passes = <<>>

-----------------------------------------------------------------------------
(* parse_uri on one raw URI, in one or in two process environments.        *)

\* run r calls FileParamUtil(auto_prefix, relative_path).parse_uri(arg_uri,
\* arg_recursive) in its environment env[r]
ParseUri(r) ==
  /\ out[r] = NoOut
  /\ out' = [out EXCEPT ![r] = parse_uri(relative_path, arg_uri, arg_recursive,
                                        env[r].home, env[r].cwd)]
  /\ UNCHANGED <<arg_uri, arg_recursive, relative_path, env>>
  /\ UNCHANGED tableVars
  /\ UNCHANGED submitVars
  /\ UNCHANGED callVars
  /\ UNCHANGED passVars

InitUri ==
  /\ arg_uri \in RawUris
  /\ arg_recursive \in BOOLEAN
  /\ relative_path \in Roots
  /\ \E e \in Envs : env = [r \in Runs |-> e]
  /\ out = [r \in Runs |-> NoOut]
  /\ TableIdle
  /\ SubmitIdle
  /\ CallIdle
  /\ PassIdle
NextUri == ParseUri(1)
SpecUri == InitUri /\ [][NextUri]_vars

\* the same call made on two machines whose home and working directories differ
InitLeak ==
  /\ arg_uri \in RawUris
  /\ arg_recursive \in BOOLEAN
  /\ relative_path \in Roots
  /\ env \in {e \in [Runs -> Envs] : e[1] # e[2]}
  /\ out = [r \in Runs |-> NoOut]
  /\ TableIdle
  /\ SubmitIdle
  /\ CallIdle
  /\ PassIdle
NextLeak == \E r \in Runs : ParseUri(r)
SpecLeak == InitLeak /\ [][NextLeak]_vars

\* the URI parse_uri works on after line 475
EffectiveUri == IF arg_recursive THEN directory_fmt(arg_uri) ELSE arg_uri
LocalOk(r) == out[r].status = "ok" /\ out[r].file_provider = P_LOCAL
CloudOk(r) == out[r].status = "ok" /\ out[r].file_provider = P_GCS

-----------------------------------------------------------------------------
(* Tasks files and command lines the compilers are run on.                 *)

MaxRows == 2
MaxArgs == 3

\* a tasks file of 0 bytes holds no record at all: reader.next() (line 643)
\* has no header record to return
NoHeader == <<<<"StopIteration">>>>

\* header records: the example of the specification, barewords, labels,
\* recursive and unnamed columns, a caller-given name of the auto-generated
\* form, headers parse_tasks_file_header rejects, and a header whose first
\* cell is quoted and holds a newline (a record of two lines)
Headers ==
  { <<<<"-","-","e","n","v"," ","S","A","M","P","L","E">>, <<"-","-","i","n","p","u","t">>, <<"-","-","o","u","t","p","u","t"," ","O","U","T">>>>,
    <<<<"S","A","M","P","L","E">>, <<"-","-","l","a","b","e","l"," ","l">>, <<"-","-","i","n","p","u","t","-","r","e","c","u","r","s","i","v","e"," ","I","N">>, <<"-","-","o","u","t","p","u","t","-","r","e","c","u","r","s","i","v","e">>>>,
    <<<<"-","-","i","n","p","u","t">>, <<"-","-","o","u","t","p","u","t">>, <<"-","-","i","n","p","u","t">>, <<"-","-","o","u","t","p","u","t">>>>,
    <<<<"-","-","i","n","p","u","t">>, <<"-","-","i","n","p","u","t"," ","I","N","P","U","T","_","0">>>>,
    <<<<"-","-","o","u","t","p","u","t"," ","O","U","T","P","U","T","_","1">>, <<"-","-","o","u","t","p","u","t">>, <<"-","-","o","u","t","p","u","t">>>>,
    <<<<"-","-","i","n","p","u","t">>, <<"-","-","b","o","g","u","s"," ","X">>>>,
    <<<<"-","-","l","a","b","e","l"," ","j","o","b","-","i","d">>>>,
    <<<<"-","-","e","n","v"," ","1","x">>>>,
    <<<<"-","-","e","n","v">>>>,
    <<<<"A","\n">>, <<"-","-","i","n","p","u","t">>>>,
    <<>> }
\* what the first record of a tasks file can be: a header record (the empty
\* record of a blank first line included), or none
FirstRecords == Headers \cup {NoHeader}

\* the cell of a well-formed row in column i: the cells of the example of the
\* specification in its columns, cells that differ from column to column
\* elsewhere
GoodCell(param, i) ==
  IF param.cls = "EnvParam" THEN <<"s", Digits[i + 1]>>
  ELSE IF param.cls = "LabelParam" THEN <<"v", Digits[i + 1]>>
  ELSE IF param.cls = "InputFileParam" /\ i = 2
    THEN <<"g","s",":","/","/","b","/","i","n",".","t","x","t">>
  ELSE IF param.cls = "OutputFileParam" /\ i = 3
    THEN <<"g","s",":","/","/","b","/","o","u","t",".","t","x","t">>
  ELSE IF param.recursive THEN <<"g","s",":","/","/","b","/","d", Digits[i + 1]>>
  ELSE <<"/", "d", "/", "f", Digits[i + 1]>>

\* a cell the column's parameter class rejects
BadCell(param) ==
  IF param.cls = "LabelParam" THEN <<"V">>
  ELSE IF param.cls = "InputFileParam" THEN <<"f","t","p",":","/","/","x">>
  ELSE <<"g","s",":","/","/","b","/","?">>

GoodRow(params) == [i \in 1..Len(params) |-> GoodCell(params[i], i)]

\* a well-formed row whose env cells are quoted cells that hold a newline
NewlineRow(params) ==
  [i \in 1..Len(params) |->
     IF params[i].cls = "EnvParam" THEN <<"x", "\n", "y">>
     ELSE GoodCell(params[i], i)]

\* the columns whose cells can be rejected, and the first and the last of them
Rejecting(params) == {i \in 1..Len(params) : params[i].cls # "EnvParam"}
FirstAndLast(S) ==
  {i \in S : (\A j \in S : i <= j) \/ (\A j \in S : j <= i)}

\* the records a data line of the file can hold: a well-formed row, one with a
\* multi-line cell, rows with one rejected cell, a row one cell short, a row
\* one cell long, a blank line
RowChoices(params) ==
  {GoodRow(params), NewlineRow(params)}
    \cup {[GoodRow(params) EXCEPT ![j] = BadCell(params[j])] :
            j \in FirstAndLast(Rejecting(params))}
    \cup {SubSeq(GoodRow(params), 1, Len(params) - 1) :
            k \in {n \in {Len(params)} : n > 0}}
    \cup {Append(GoodRow(params), <<"x">>)}
    \cup {<<>>}

\* tasks: the optional bounds of the task range, each absent or a number
TaskRanges ==
  UNION {[keys -> 0..MaxRows] : keys \in SUBSET {"min", "max"}}

\* command-line tokens
InputTokens == { <<"g","s",":","/","/","b","/","a">>,
    <<"I","N","P","U","T","_","0","=","g","s",":","/","/","b","/","c">>,
    <<"X","=","/","d","/","x">> }
InputRecursiveTokens == { <<"g","s",":","/","/","b","/","d">>, <<"R","=","/","d","/","r">> }
OutputTokens == { <<"g","s",":","/","/","b","/","o">>, <<"O","U","T","P","U","T","_","0","=","g","s",":","/","/","b","/","p">> }
OutputRecursiveTokens == { <<"g","s",":","/","/","b","/","e">>, <<"O","U","T","P","U","T","_","1","=","/","d","/","q">> }
EnvLabelArgs ==
  { [envs |-> <<>>, labels |-> <<>>],
    [envs |-> <<<<"A","=","1">>, <<"B">>>>, labels |-> <<<<"l","=","v">>>>] }
SeqsUpTo(S, n) == UNION {[1..k -> S] : k \in 0..n}
\* command lines with at most MaxArgs file arguments: n holds the lengths of
\* the four lists
ArgCounts ==
  { n \in [1..4 -> 0..MaxArgs] : n[1] + n[2] + n[3] + n[4] <= MaxArgs }
FileArgLists(n) ==
  { [inputs |-> i, inputs_recursive |-> ir, outputs |-> o,
     outputs_recursive |-> orr] :
      i \in [1..n[1] -> InputTokens],
      ir \in [1..n[2] -> InputRecursiveTokens],
      o \in [1..n[3] -> OutputTokens],
      orr \in [1..n[4] -> OutputRecursiveTokens] }
CommandLines ==
  { [envs |-> el.envs, labels |-> el.labels, inputs |-> f.inputs,
     inputs_recursive |-> f.inputs_recursive, outputs |-> f.outputs,
     outputs_recursive |-> f.outputs_recursive] :
      el \in EnvLabelArgs,
      f \in UNION {FileArgLists(n) : n \in ArgCounts} }

-----------------------------------------------------------------------------
(* tasks_file_to_job_data, record by record, and args_to_job_data.         *)

\* lines 643-645: the header record is read and parsed
HeaderParsed(parsed) ==
  /\ auto_index' = parsed.index
  /\ IF parsed.status = "ok"
       THEN /\ job_params' = parsed.job_params
            /\ pc' = "rows"
            /\ err' = err
       ELSE /\ job_params' = job_params
            /\ pc' = "failed"
            /\ err' = parsed.status
\* line 643 on a file without a record: StopIteration leaves
\* tasks_file_to_job_data, nothing was read and nothing was parsed
HeaderMissing ==
  /\ line_num' = line_num
  /\ pc' = "failed"
  /\ err' = "StopIteration"
  /\ UNCHANGED <<auto_index, job_params>>
ReadHeader ==
  /\ pc = "start"
  /\ IF header = NoHeader
       THEN HeaderMissing
       ELSE /\ line_num' = RecordLines(header)
            /\ HeaderParsed(parse_tasks_file_header(header, auto_index))
  /\ UNCHANGED <<header, rows, tasks, cli, job_data, diag>>
  /\ UNCHANGED uriVars
  /\ UNCHANGED submitVars
  /\ UNCHANGED callVars
  /\ UNCHANGED passVars

\* lines 651-690 for the record row, task_id = reader.line_num - 1, built the
\* outcome of lines 661-690
RowRead(row, task_id, built) ==
  IF Skipped(task_id)
    THEN UNCHANGED <<job_data, diag, pc, err>>
    ELSE /\ diag' = IF Len(row) # Len(job_params)
                      THEN Append(diag, task_id + 1) ELSE diag
         /\ IF built.status = "ok"
              THEN /\ job_data' = Append(job_data, built.task)
                   /\ UNCHANGED <<pc, err>>
              ELSE /\ pc' = "failed"
                   /\ err' = built.status
                   /\ UNCHANGED job_data

\* lines 648-690: the reader yields the next record of the file
ReadRow(row) ==
  /\ pc = "rows"
  /\ Len(rows) < MaxRows
  /\ line_num' = line_num + RecordLines(row)
  /\ rows' = Append(rows, row)
  /\ RowRead(row, line_num + RecordLines(row) - 1,
             RowTask(job_params, row, line_num + RecordLines(row) - 1, env[1]))
  /\ UNCHANGED <<header, tasks, cli, auto_index, job_params>>
  /\ UNCHANGED uriVars
  /\ UNCHANGED submitVars
  /\ UNCHANGED callVars
  /\ UNCHANGED passVars

\* lines 692-696: the reader is exhausted
EndOfFile ==
  /\ pc = "rows"
  /\ IF job_data = <<>>
       THEN pc' = "failed" /\ err' = "NoTasksError"
       ELSE pc' = "done" /\ err' = err
  /\ UNCHANGED <<header, rows, tasks, cli, auto_index, job_params, job_data,
                 line_num, diag>>
  /\ UNCHANGED uriVars
  /\ UNCHANGED submitVars
  /\ UNCHANGED callVars
  /\ UNCHANGED passVars

\* lines 720-784: one call of args_to_job_data
ArgsCompiled(made) ==
  /\ auto_index' = made.index
  /\ IF made.status = "ok"
       THEN job_data' = made.job_data /\ pc' = "done" /\ err' = err
       ELSE job_data' = job_data /\ pc' = "failed" /\ err' = made.status
ArgsToJobData ==
  /\ pc = "args"
  /\ ArgsCompiled(args_to_job_data(cli, auto_index, env[1]))
  /\ UNCHANGED <<header, rows, tasks, cli, job_params, line_num, diag>>
  /\ UNCHANGED uriVars
  /\ UNCHANGED submitVars
  /\ UNCHANGED callVars
  /\ UNCHANGED passVars

\* a compiler run starts with two fresh factories
CompilerIdle ==
  /\ arg_uri = <<>> /\ arg_recursive = FALSE /\ relative_path = <<>>
  /\ env = [r \in Runs |-> EnvA] /\ out = [r \in Runs |-> NoOut]
  /\ auto_index = [role \in Roles |-> 0]
  /\ rows = <<>> /\ job_params = <<>> /\ job_data = <<>>
  /\ line_num = 0 /\ diag = <<>> /\ err = ""
  /\ SubmitIdle
  /\ CallIdle
  /\ PassIdle

InitTable ==
  /\ CompilerIdle
  /\ header \in FirstRecords
  /\ tasks \in TaskRanges
  /\ cli = <<>>
  /\ pc = "start"
NextTable ==
  \/ ReadHeader
  \/ \E row \in RowChoices(job_params) : ReadRow(row)
  \/ EndOfFile
SpecTable == InitTable /\ [][NextTable]_vars

InitArgs ==
  /\ CompilerIdle
  /\ header = <<>>
  /\ tasks = <<>>
  /\ cli \in CommandLines
  /\ pc = "args"
NextArgs == ArgsToJobData
SpecArgs == InitArgs /\ [][NextArgs]_vars

\* one compiler run of either kind
InitCompile == InitTable \/ InitArgs
NextCompile == NextTable \/ NextArgs
SpecCompile == InitCompile /\ [][NextCompile]_vars

-----------------------------------------------------------------------------
(* The logging parameter and the submission validator.                     *)

\* LoggingParam(uri, file_provider)
LoggingParam(uri, file_provider) ==
  [uri |-> uri, file_provider |-> file_provider]

\* lines 514-517 of build_logging_param, on what parse_uri returned
LoggingChecked_noWildcardCheck(parsed) ==
  IF parsed.status # "ok" THEN [status |-> parsed.status]
  ELSE [status |-> "ok",
        param |-> LoggingParam(parsed.uri_parts, parsed.file_provider)]
LoggingChecked(parsed) ==
  IF parsed.status # "ok" THEN [status |-> parsed.status]
  ELSE IF "*" \in Range(parsed.uri_parts.basename)
    THEN [status |-> "UnsupportedPathPattern"]
  ELSE [status |-> "ok",
        param |-> LoggingParam(parsed.uri_parts, parsed.file_provider)]

\* build_logging_param(logging_uri), util_class OutputFileParamUtil
build_logging_param(logging_uri, e) ==
  IF ~Truthy(logging_uri)
    THEN [status |-> "ok", param |-> LoggingParam(NoUri, NoProvider)]
    ELSE LoggingChecked(parse_uri(<<>>, logging_uri,
                                  ~EndsWith(logging_uri, S_log),
                                  e.home, e.cwd))

S_logging == <<"l","o","g","g","i","n","g">>
S_inputs == <<"i","n","p","u","t","s">>
S_outputs == <<"o","u","t","p","u","t","s">>
S_None == <<"N","o","n","e">>

\* '{path}' of error_message.format: a UriParts is its string, None is 'None'
FormatPath(uri) == IF uri = NoUri THEN S_None ELSE uri.uri

\* the ValueError of lines 835-837 and 847-849
Unsupported(argname, uri, provider) ==
  [status |-> "ProviderNotWhitelisted", argname |-> argname,
   path |-> FormatPath(uri), provider |-> provider]

\* lines 843-849: the loop over the file parameters of one list, from i on
RECURSIVE CheckParams(_, _, _, _, _)
CheckParams(params, i, white, argname, provider) ==
  IF i > Len(params) THEN [status |-> "ok"]
  ELSE IF params[i].file_provider \notin white
    THEN Unsupported(argname, params[i].uri, provider)
  ELSE CheckParams(params, i + 1, white, argname, provider)

\* task.get(argtype, [])
TaskGet(task, argtype) ==
  IF argtype \in DOMAIN task THEN task[argtype] ELSE <<>>

\* the list of lines 841-842 in the other order: the outputs are checked first
ArgTypes_outputsFirst(input_providers, output_providers) ==
  << [argtype |-> "outputs", text |-> S_outputs, white |-> output_providers],
     [argtype |-> "inputs", text |-> S_inputs, white |-> input_providers] >>
ArgTypes(input_providers, output_providers) ==
  << [argtype |-> "inputs", text |-> S_inputs, white |-> input_providers],
     [argtype |-> "outputs", text |-> S_outputs, white |-> output_providers] >>

\* lines 841-849: the loop over the argument types of one task, from a on
RECURSIVE CheckArgTypes(_, _, _, _)
ArgTypeChecked(task, types, a, provider, checked) ==
  IF checked.status # "ok" THEN checked
  ELSE CheckArgTypes(task, types, a + 1, provider)
CheckArgTypes(task, types, a, provider) ==
  IF a > Len(types) THEN [status |-> "ok"]
  ELSE ArgTypeChecked(task, types, a, provider,
                      CheckParams(TaskGet(task, types[a].argtype), 1,
                                  types[a].white,
                                  RStrip(types[a].text, {"s"}), provider))

\* lines 840-849: the loop over the tasks, from task t on
RECURSIVE CheckTasks(_, _, _, _)
TaskChecked(task_data, t, types, provider, checked) ==
  IF checked.status # "ok" THEN checked
  ELSE CheckTasks(task_data, t + 1, types, provider)
CheckTasks(task_data, t, types, provider) ==
  IF t > Len(task_data) THEN [status |-> "ok"]
  ELSE TaskChecked(task_data, t, types, provider,
                   CheckArgTypes(task_data[t], types, 1, provider))

\* validate_submit_args_or_fail(job_resources, all_task_data, provider_name,
\* input_providers, output_providers, logging_providers): lg is
\* job_resources.logging, inp/outp/logp the three provider whitelists
validate_submit_args_or_fail_absentLoggingPasses(lg, task_data, provider, inp, outp, logp) ==
  IF lg.file_provider # NoProvider /\ lg.file_provider \notin logp
    THEN Unsupported(S_logging, lg.uri, provider)
    ELSE CheckTasks(task_data, 1, ArgTypes(inp, outp), provider)
validate_submit_args_or_fail(lg, task_data, provider, inp, outp, logp) ==
  IF lg.file_provider \notin logp
    THEN Unsupported(S_logging, lg.uri, provider)
    ELSE CheckTasks(task_data, 1, ArgTypes(inp, outp), provider)

MaxTasks == 2

\* logging parameters: none configured, a cloud directory, a local directory
LoggingUris ==
  { <<>>, <<"g","s",":","/","/","b","/","l","o","g","s">>,
    <<"/","d","/","l","o","g","s">> }
LoggingChoices == {build_logging_param(u, EnvA).param : u \in LoggingUris}

\* the file parameter at position i of a list of task t: its URI tells the
\* task, the list and the position, its provider is google-cloud-storage or
\* local
SubmitUri(role, provider, t, i) ==
  (IF provider = P_GCS THEN <<"g","s",":","/","/","b","/">>
   ELSE <<"/","d","/">>)
    \o <<"t">> \o IntToStr(t)
    \o (IF role = "inputs" THEN <<"i">> ELSE <<"o">>) \o IntToStr(i)
SubmitParam(role, provider, t, i) ==
  make_param(role, IF role = "inputs" THEN <<"I","N">> ELSE <<"O","U","T">>,
             SubmitUri(role, provider, t, i), FALSE, EnvA).param

\* the providers of the parameters of one list of a task, or no such key
Absent == <<"absent">>
ListShapes ==
  { Absent, <<P_GCS>>, <<P_GCS, P_LOCAL>>, <<P_LOCAL, P_LOCAL>> }
TaskShapes == [inputs : ListShapes, outputs : ListShapes]
ShapeKeys(shape) == {role \in Roles : shape[role] # Absent}
TaskOf(shape, t) ==
  [role \in ShapeKeys(shape) |->
     [i \in 1..Len(shape[role]) |-> SubmitParam(role, shape[role][i], t, i)]]
TaskData(shapes) == [t \in 1..Len(shapes) |-> TaskOf(shapes[t], t)]

\* whitelists: the provider collections a backend passes
Whitelists ==
  { [inputs |-> ip, outputs |-> op, logging |-> lp] :
      ip \in {{P_GCS}, {P_GCS, P_LOCAL}},
      op \in {{P_GCS}, {P_LOCAL}, {P_GCS, P_LOCAL}},
      lp \in {{P_GCS}, {P_GCS, P_LOCAL}} }

\* one call of validate_submit_args_or_fail
Validate ==
  /\ verdict = NoOut
  /\ verdict' = validate_submit_args_or_fail(logging, all_task_data,
                                             provider_name, whitelist.inputs,
                                             whitelist.outputs,
                                             whitelist.logging)
  /\ UNCHANGED <<logging, all_task_data, provider_name, whitelist>>
  /\ UNCHANGED uriVars
  /\ UNCHANGED tableVars
  /\ UNCHANGED callVars
  /\ UNCHANGED passVars

InitSubmit ==
  /\ UriIdle
  /\ TableIdle
  /\ CallIdle
  /\ PassIdle
  /\ logging \in LoggingChoices
  /\ all_task_data \in {TaskData(shapes) : shapes \in SeqsUpTo(TaskShapes, MaxTasks)}
  /\ provider_name = "MYPROVIDER"
  /\ whitelist \in Whitelists
  /\ verdict = NoOut
NextSubmit == Validate
SpecSubmit == InitSubmit /\ [][NextSubmit]_vars

-----------------------------------------------------------------------------
(* Claims about the URI rewriter.                                          *)

\* the provider-specific container path of a local URI that parse_uri accepted
LocalContainerPath == local_uri_rewriter(EffectiveUri, env[1].home, env[1].cwd)[2]
\* its directory components: all components but the last (the filename)
DirComps(path) ==
  LET comps == SplitSlash(path) IN SubSeq(comps, 1, Len(comps) - 1)

\* C2 as stated: for every accepted local URI the provider-specific container
\* path starts with 'file/' and contains the substring '..' nowhere.
C2_NoDotDotAnywhere ==
  LocalOk(1) =>
    /\ StartsWith(LocalContainerPath, S_file_dir)
    /\ ~Contains(LocalContainerPath, S_dotdot)

\* C2 as amended: for every accepted local URI the provider-specific container
\* path starts with 'file/', none of its path components is '..', and none of
\* its directory components begins with '..' ('..' may remain inside a
\* component name, or at the start of a filename that is not '..' itself).
C2_NoDotDotComponent ==
  LocalOk(1) =>
    /\ StartsWith(LocalContainerPath, S_file_dir)
    /\ \A i \in 1..Len(SplitSlash(LocalContainerPath)) :
         SplitSlash(LocalContainerPath)[i] # S_dotdot
    /\ \A i \in 1..Len(DirComps(LocalContainerPath)) :
         ~StartsWith(DirComps(LocalContainerPath)[i], S_dotdot)

\* an accepted local URI with a directory component that begins with '..'
\* below its first component, rewritten with the _dotdot_ marker
C2_Witness ==
  /\ LocalOk(1)
  /\ Contains(Dirname(EffectiveUri), S_slash_dotdot \o <<"a">>)
  /\ Contains(LocalContainerPath, S_rw_dotdot)

\* C3: for every URI parse_uri accepts, pathPrefix + basename of the returned
\* UriParts equals the normalized URI the rewriter returned, exactly.
C3_UriPartsRoundTrip ==
  out[1].status = "ok" =>
    out[1].uri_parts.path \o out[1].uri_parts.basename = out[1].normalized

\* C4: for every URI classified as cloud-object-storage the final container
\* path is the mount root joined with the URI whose leading scheme and
\* separator are replaced by 'gs/'.
C4_CloudContainerPath ==
  CloudOk(1) =>
    out[1].docker_uri =
      PathJoin(relative_path, S_gs_dir \o Drop(EffectiveUri, Len(S_gs_scheme)))

\* C5: the container path of a local file parameter is the same in two runs
\* on the same raw URI, recursive flag and mount root under different home
\* and working directories; the two runs also accept or reject alike.
C5_ContainerPathIndependentOfEnv ==
  (out[1] # NoOut /\ out[2] # NoOut) =>
    /\ out[1].status = out[2].status
    /\ LocalOk(1) => out[1].docker_uri = out[2].docker_uri

\* two finished runs on a local URI whose normalized URIs differ
C5_Witness ==
  /\ LocalOk(1) /\ LocalOk(2)
  /\ env[1].home # env[2].home /\ env[1].cwd # env[2].cwd
  /\ out[1].normalized # out[2].normalized

-----------------------------------------------------------------------------
(* Claims about the tasks file compiler.                                   *)

\* reader.line_num after the k-th data record was read
RECURSIVE LineNumAfter(_)
LineNumAfter(k) ==
  IF k = 0 THEN RecordLines(header)
  ELSE LineNumAfter(k - 1) + RecordLines(rows[k])
\* the k-th data record was materialized: no continue statement skipped it
Materialized(k) == ~Skipped(LineNumAfter(k) - 1)
\* a task numbered as the k-th data record is in job_data
TaskOfRowBuilt(k) ==
  \E j \in 1..Len(job_data) : job_data[j].task_id = LineNumAfter(k) - 1
MinOf(a, b) == IF a < b THEN a ELSE b
\* a cell of the k-th data record under a header column is rejected by the
\* parameter class or the file-parameter build of its column
CellRejected(k) ==
  \E i \in 1..MinOf(Len(job_params), Len(rows[k])) :
    RowColumn(job_params[i], rows[k], i, env[1]).status # "ok"
WrongWidth(k) == Len(rows[k]) # Len(job_params)

\* C1: a materialized data row whose number of fields differs from the number
\* of header columns, shorter or longer, never aborts compilation: when none
\* of its cells is rejected for its own content, the diagnostic naming its
\* line is reported, the run goes on and a task is produced for the row.
C1_WidthMismatchTolerated ==
  \A k \in 1..Len(rows) :
    (Materialized(k) /\ WrongWidth(k) /\ ~CellRejected(k)) =>
      /\ LineNumAfter(k) \in Range(diag)
      /\ k = Len(rows) => pc # "failed"
      /\ TaskOfRowBuilt(k)

\* the k-th data row is inside the optional inclusive [min, max] filter
InRange(k) ==
  /\ "min" \in DOMAIN tasks => tasks["min"] <= k
  /\ "max" \in DOMAIN tasks => k <= tasks["max"]

\* C7: the k-th data row gets task number k; the task list holds exactly the
\* rows with min <= k <= max, in file order; a row outside the range is
\* skipped entirely, so compilation never fails in a row outside the range.
C7_TaskNumbering ==
  /\ pc \in {"rows", "done"} =>
       /\ {job_data[j].task_id : j \in 1..Len(job_data)}
            = {k \in 1..Len(rows) : InRange(k)}
       /\ \A j \in 1..(Len(job_data) - 1) :
            job_data[j].task_id < job_data[j + 1].task_id
  /\ (pc = "failed" /\ Len(rows) > 0 /\ err # "NoTasksError") =>
       InRange(Len(rows))

\* the header record is one parse_tasks_file_header accepts
HeaderValid ==
  /\ header # NoHeader
  /\ parse_tasks_file_header(header, [role \in Roles |-> 0]).status = "ok"
AllRowsSkipped == \A k \in 1..Len(rows) : ~Materialized(k)
\* the run ended, no header token was rejected, and every data row the file
\* holds was skipped: zero tasks are produced and no parameter is at fault
ZeroTasksProduced ==
  /\ pc \in {"done", "failed"}
  /\ header = NoHeader \/ HeaderValid
  /\ AllRowsSkipped

\* C8: the compiler never returns an empty task list; NoTasksError is raised
\* with no task list built; and whenever zero tasks are produced, by a file
\* without data rows or with data rows that the filter all excluded, the run
\* fails with NoTasksError.
C8_NoTasksError ==
  /\ pc = "done" => Len(job_data) > 0
  /\ err = "NoTasksError" => pc = "failed" /\ Len(job_data) = 0
  /\ ZeroTasksProduced => pc = "failed" /\ err = "NoTasksError"

\* what holds of the files that have a header record: an accepted header with
\* no data rows, or with data rows all skipped, ends in NoTasksError
NoTasksErrorAfterHeader ==
  /\ pc = "done" => Len(job_data) > 0
  /\ err = "NoTasksError" => pc = "failed" /\ Len(job_data) = 0
  /\ (ZeroTasksProduced /\ header # NoHeader) =>
       pc = "failed" /\ err = "NoTasksError"
\* the file of 0 bytes: the run ended with StopIteration
EmptyFileStopped ==
  /\ header = NoHeader
  /\ pc = "failed"
  /\ err = "StopIteration"
  /\ line_num = 0 /\ Len(job_data) = 0

\* a file whose data rows were all excluded by the filter, one of them a row
\* of the wrong width, failed with NoTasksError
C8_Witness ==
  /\ err = "NoTasksError"
  /\ Len(job_params) > 0
  /\ Len(rows) > 0
  /\ \E k \in 1..Len(rows) : WrongWidth(k)

\* the header token of a column: its type and its name (None when it has none)
TokenType(col) == ColumnPair(col)[1]
TokenName(col) == ColumnPair(col)[2]
Unrecognized(col) ==
  /\ StartsWith(col, <<"-">>)
  /\ TokenType(col) \notin {T_env, T_label} \cup FileColumnTypes
\* the class a header token declares
TokenClass(col) ==
  IF TokenType(col) = T_env THEN "EnvParam"
  ELSE IF TokenType(col) = T_label THEN "LabelParam"
  ELSE IF StartsWith(TokenType(col), T_input) THEN "InputFileParam"
  ELSE "OutputFileParam"
IsFileClass(cls) == cls \in {"InputFileParam", "OutputFileParam"}
RoleOf(cls) == IF cls = "InputFileParam" THEN "inputs" ELSE "outputs"
\* the unnamed file columns of the class of column i before column i
UnnamedBefore(i) ==
  Cardinality({c \in 1..(i - 1) :
                 /\ TokenClass(header[c]) = TokenClass(header[i])
                 /\ ~Truthy(TokenName(header[c]))})
\* the name header token i declares
TokenDeclaredName(i) ==
  IF IsFileClass(TokenClass(header[i])) /\ ~Truthy(TokenName(header[i]))
    THEN AutoPrefix(RoleOf(TokenClass(header[i]))) \o IntToStr(UnnamedBefore(i))
    ELSE TokenName(header[i])
\* the descriptor of column i is the one header token i declares
DescriptorDeclared(i) ==
  /\ job_params[i].cls = TokenClass(header[i])
  /\ job_params[i].name = TokenDeclaredName(i)
  /\ IsFileClass(job_params[i].cls) =>
       job_params[i].recursive
         = EndsWith(TokenType(header[i]), <<"-">> \o T_recursive)
\* the header record was accepted
HeaderAccepted ==
  /\ pc # "start"
  /\ ~(pc = "failed" /\ Len(rows) = 0 /\ err # "NoTasksError")

\* the position of column i among the columns that go to the same list
PosInList(i) ==
  Cardinality({c \in 1..i :
                 ListOf(job_params[c].cls) = ListOf(job_params[i].cls)})
\* the data record the j-th task was built from
RowOfTask(j) ==
  CHOOSE k \in 1..Len(rows) :
    Materialized(k) /\ Cardinality({r \in 1..k : Materialized(r)}) = j
\* parameter p carries what the file-parameter build returns for the cell
FileBuilt(desc, p, parsed) ==
  /\ parsed.status = "ok"
  /\ p.recursive = desc.recursive
  /\ p.docker_path = parsed.docker_uri
  /\ p.uri = parsed.uri_parts
  /\ p.file_provider = parsed.file_provider
\* parameter p is the cell under the descriptor desc
CellMapped(desc, p, cell) ==
  /\ p.cls = desc.cls
  /\ p.name = desc.name
  /\ p.value = cell
  /\ IsFileClass(desc.cls) =>
       FileBuilt(desc, p, parse_uri(UtilRoot(RoleOf(desc.cls)), cell,
                                    desc.recursive, env[1].home, env[1].cwd))
\* task t holds, list by list, one parameter per header column, in column
\* order, built from the cells of row
TaskMapped(t, row) ==
  /\ \A list \in {"envs", "labels", "inputs", "outputs"} :
       Len(t[list])
         = Cardinality({i \in 1..Len(job_params) :
                          ListOf(job_params[i].cls) = list})
  /\ \A i \in 1..Len(job_params) :
       CellMapped(job_params[i], t[ListOf(job_params[i].cls)][PosInList(i)],
                  row[i])

ExampleHeader ==
  << <<"-","-","e","n","v"," ","S","A","M","P","L","E">>,
     <<"-","-","i","n","p","u","t">>,
     <<"-","-","o","u","t","p","u","t"," ","O","U","T">> >>
ExampleRow ==
  << <<"s","1">>, <<"g","s",":","/","/","b","/","i","n",".","t","x","t">>,
     <<"g","s",":","/","/","b","/","o","u","t",".","t","x","t">> >>
\* the task of the example: EnvParam(SAMPLE, 's1'), one auto-named input for
\* gs://b/in.txt and an output named OUT for gs://b/out.txt
ExampleTask(t) ==
  /\ t.envs = <<[cls |-> "EnvParam", name |-> <<"S","A","M","P","L","E">>,
                 value |-> <<"s","1">>]>>
  /\ Len(t.labels) = 0
  /\ Len(t.inputs) = 1
  /\ t.inputs[1].name = AUTO_PREFIX_INPUT \o <<"0">>
  /\ t.inputs[1].value = ExampleRow[2]
  /\ t.inputs[1].uri.uri = ExampleRow[2]
  /\ ~t.inputs[1].recursive
  /\ Len(t.outputs) = 1
  /\ t.outputs[1].name = <<"O","U","T">>
  /\ t.outputs[1].value = ExampleRow[3]
  /\ t.outputs[1].uri.uri = ExampleRow[3]

\* C9: an accepted header gives one descriptor per token (a bareword is an env
\* column; an unnamed --input/--output column gets one auto-generated name);
\* an unrecognized token makes the header fail, with UnrecognizedColumn when
\* the columns before it are well-formed; every task holds, per header column
\* i, the parameter with the header's name whose value is cell i of its row,
\* env and label cells literally, input and output cells through the
\* file-parameter build with the recursiveness of the header token; and the
\* example of the claim yields the task it names.
C9_RowsMapOntoHeader ==
  /\ HeaderAccepted =>
       /\ Len(job_params) = Len(header)
       /\ \A i \in 1..Len(header) :
            /\ DescriptorDeclared(i)
            /\ ~StartsWith(header[i], <<"-">>) =>
                 job_params[i].cls = "EnvParam" /\ job_params[i].name = header[i]
  /\ \A i \in 1..Len(header) :
       (header # NoHeader /\ Unrecognized(header[i]) /\ pc # "start") =>
          /\ pc = "failed" /\ Len(rows) = 0 /\ Len(job_data) = 0
          /\ (\A c \in 1..(i - 1) :
                HeaderColumn(header[c], [role \in Roles |-> 0]).made.status = "ok")
               => err = "UnrecognizedColumn"
  /\ err = "UnrecognizedColumn" =>
       header # NoHeader /\ \E i \in 1..Len(header) : Unrecognized(header[i])
  /\ \A j \in 1..Len(job_data) : TaskMapped(job_data[j], rows[RowOfTask(j)])
  /\ (header = ExampleHeader /\ Len(rows) > 0 /\ rows[1] = ExampleRow
        /\ Materialized(1)) =>
       /\ Len(job_data) >= 1
       /\ job_data[1].task_id = 1
       /\ ExampleTask(job_data[1])

\* the example of the claim was compiled to its one task
C9_Witness ==
  /\ pc = "done"
  /\ header = ExampleHeader
  /\ rows = <<ExampleRow>>
  /\ Len(job_data) = 1

-----------------------------------------------------------------------------
(* Claims about the auto-generated names.                                  *)

\* the run is one of tasks_file_to_job_data (cli holds no argument lists)
IsTableRun == DOMAIN cli = {}
\* the file arguments of a role, in the order args_to_job_data visits them
CliFlagged(role) ==
  IF role = "inputs" THEN FlagArgs(cli.inputs, cli.inputs_recursive)
  ELSE FlagArgs(cli.outputs, cli.outputs_recursive)
\* the file parameters of a role a run declared: position, name, and whether
\* the name was auto-generated (the caller gave none)
TableDeclared(role) ==
  { [pos |-> i, name |-> job_params[i].name,
     auto |-> ~Truthy(TokenName(header[i]))] :
      i \in {c \in 1..Len(job_params) : job_params[c].cls = ParamClass(role)} }
ArgsDeclared(role) ==
  IF Len(job_data) = 0 THEN {}
  ELSE { [pos |-> i, name |-> job_data[1][role][i].name,
          auto |-> ~Truthy(split_pair(CliFlagged(role)[i].arg, "=", 0)[1])] :
           i \in 1..Len(job_data[1][role]) }
Declared(role) ==
  IF IsTableRun THEN TableDeclared(role) ELSE ArgsDeclared(role)
AutoDeclared(role) == {p \in Declared(role) : p.auto}
\* the run built all the file parameters its input declares
AllDeclared ==
  IF IsTableRun THEN pc # "start" /\ Len(job_params) = Len(header)
  ELSE pc = "done"

\* C6 as stated: within one compiler run every auto-generated name differs
\* from the name of every other parameter of the same role, auto-generated or
\* caller-given.
C6_AutoNamesNeverCollide ==
  \A role \in Roles : \A p \in AutoDeclared(role) : \A q \in Declared(role) :
    p.pos # q.pos => p.name # q.name

\* C6 as amended: within one compiler run the auto-generated names of a role
\* differ from each other: the k-th unnamed file parameter of a role is named
\* '<prefix><k-1>', and each counter ends at the number of unnamed parameters
\* of its own role (the counters advance independently).
C6_AutoNamesDistinct ==
  \A role \in Roles :
    /\ \A p \in AutoDeclared(role) :
         /\ p.name = AutoPrefix(role) \o
              IntToStr(Cardinality({q \in AutoDeclared(role) : q.pos < p.pos}))
         /\ \A q \in AutoDeclared(role) : p.pos # q.pos => p.name # q.name
    /\ AllDeclared => auto_index[role] = Cardinality(AutoDeclared(role))

\* a command line compiled with two unnamed inputs and, between them in the
\* order the arguments are visited, a named input
C6_Witness ==
  /\ ~IsTableRun
  /\ pc = "done"
  /\ Cardinality(AutoDeclared("inputs")) >= 2
  /\ \E p \in Declared("inputs") :
       /\ ~p.auto
       /\ \E q \in AutoDeclared("inputs") : q.pos > p.pos

-----------------------------------------------------------------------------
(* Claims about the submission validator.                                  *)

ArgKinds == <<"inputs", "outputs">>
\* the file parameters of the tasks: task, argument kind, position in the list
ParamSites ==
  UNION { UNION { {<<t, a, i>> :
                     i \in 1..Len(TaskGet(all_task_data[t], ArgKinds[a]))} :
                  a \in 1..Len(ArgKinds) } :
          t \in 1..Len(all_task_data) }
SiteParam(s) == TaskGet(all_task_data[s[1]], ArgKinds[s[2]])[s[3]]
SiteViolates(s) == SiteParam(s).file_provider \notin whitelist[ArgKinds[s[2]]]
\* tasks in list order, in a task the inputs before the outputs, in list order
SiteBefore(s, r) ==
  \/ s[1] < r[1]
  \/ s[1] = r[1] /\ s[2] < r[2]
  \/ s[1] = r[1] /\ s[2] = r[2] /\ s[3] < r[3]
FirstViolation(s) ==
  /\ SiteViolates(s)
  /\ \A r \in ParamSites : SiteViolates(r) => (r = s \/ SiteBefore(s, r))
LoggingAllowed == logging.file_provider \in whitelist.logging
ArgNameOf(a) ==
  IF a = 1 THEN <<"i","n","p","u","t">> ELSE <<"o","u","t","p","u","t">>
Rejected(argname, path) ==
  [status |-> "ProviderNotWhitelisted", argname |-> argname, path |-> path,
   provider |-> provider_name]

\* C10: the validator succeeds iff the logging provider is in the logging
\* whitelist and every input (output) parameter of every task has its
\* provider in the input (output) whitelist; the violation reported is the
\* first in the order logging, tasks in list order, inputs before outputs,
\* each in list order, with the argument kind, the URI and the backend
\* identifier; a task with a local input is rejected when the input whitelist
\* holds only google-cloud-storage.
C10_SubmitValidation ==
  verdict # NoOut =>
    /\ verdict.status = "ok"
         <=> (LoggingAllowed /\ \A s \in ParamSites : ~SiteViolates(s))
    /\ ~LoggingAllowed =>
         verdict = Rejected(<<"l","o","g","g","i","n","g">>,
                            IF logging.uri = NoUri THEN <<"N","o","n","e">>
                            ELSE logging.uri.uri)
    /\ LoggingAllowed =>
         \A s \in ParamSites :
           FirstViolation(s) =>
             verdict = Rejected(ArgNameOf(s[2]), SiteParam(s).uri.uri)
    /\ ( /\ LoggingAllowed
         /\ whitelist.inputs = {P_GCS}
         /\ \E s \in ParamSites :
              s[2] = 1 /\ SiteParam(s).file_provider = P_LOCAL )
         => verdict.status = "ProviderNotWhitelisted"

\* several violations exist and the one reported is the local input at the
\* second position of the second task, under an input whitelist that holds
\* only google-cloud-storage
C10_Witness ==
  /\ verdict # NoOut
  /\ verdict.status = "ProviderNotWhitelisted"
  /\ whitelist.inputs = {P_GCS}
  /\ verdict.argname = <<"i","n","p","u","t">>
  /\ verdict.path = SubmitUri("inputs", P_LOCAL, 2, 2)
  /\ Cardinality({s \in ParamSites : SiteViolates(s)}) >= 2

-----------------------------------------------------------------------------
(* The path policy: _validate_paths_or_fail on its own (run 1) and inside  *)
(* parse_uri (run 2), on URIs that hold every character the policy names.  *)

MaxPolicyLen == 3

PolicyPrefixes == { <<>>, <<"/">>, S_gs_scheme, <<"f","t","p",":","/","/">> }
PolicyAlphabet == {"a", ".", "/", "*", "[", "]", "?"}
PolicyUris ==
  {p \o b : p \in PolicyPrefixes,
            b \in UNION {[1..n -> PolicyAlphabet] : n \in 0..MaxPolicyLen}}

\* one call of FileParamUtil._validate_paths_or_fail(arg_uri, arg_recursive)
ValidatePaths ==
  /\ out[1] = NoOut
  /\ out' = [out EXCEPT
               ![1] = [status |-> validate_paths_or_fail(arg_uri,
                                                        arg_recursive)]]
  /\ UNCHANGED <<arg_uri, arg_recursive, relative_path, env>>
  /\ UNCHANGED tableVars
  /\ UNCHANGED submitVars
  /\ UNCHANGED callVars
  /\ UNCHANGED passVars

InitPolicy ==
  /\ arg_uri \in PolicyUris
  /\ arg_recursive \in BOOLEAN
  /\ relative_path = <<>>
  /\ env = [r \in Runs |-> EnvA]
  /\ out = [r \in Runs |-> NoOut]
  /\ TableIdle
  /\ SubmitIdle
  /\ CallIdle
  /\ PassIdle
NextPolicy == ValidatePaths \/ ParseUri(2)
SpecPolicy == InitPolicy /\ [][NextPolicy]_vars

\* the directory portion of a URI: everything up to its last '/', and its
\* filename: everything after it
RECURSIVE FileNameOf(_)
FileNameOf(uri) ==
  IF uri = <<>> \/ uri[Len(uri)] = "/" THEN <<>>
  ELSE FileNameOf(SubSeq(uri, 1, Len(uri) - 1)) \o <<uri[Len(uri)]>>
DirectoryOf(uri) == SubSeq(uri, 1, Len(uri) - Len(FileNameOf(uri)))

PolicyRejects(uri, rec) ==
  \/ "[" \in Range(uri) \/ "]" \in Range(uri)
  \/ "?" \in Range(uri)
  \/ "*" \in Range(DirectoryOf(uri))
  \/ \E i \in 1..(Len(FileNameOf(uri)) - 1) :
       FileNameOf(uri)[i] = "*" /\ FileNameOf(uri)[i + 1] = "*"
  \/ FileNameOf(uri) \in {<<".">>, <<".", ".">>}
  \/ ~rec /\ FileNameOf(uri) = <<>>

\* C11: the path policy checker fails with UnsupportedPathPattern if and only
\* if '[' or ']' or '?' occurs in the URI, '*' occurs in the directory
\* portion, '**' occurs in the filename, the filename is '.' or '..', or the
\* reference is non-recursive and the filename is empty; every other URI is
\* accepted; and parse_uri, which forces a recursive URI to directory form
\* first, never accepts a recursive URI that holds '*' (it fails with
\* UnsupportedPathPattern when the provider of the URI is supported).
C11_PathPolicy ==
  /\ out[1] # NoOut =>
       /\ out[1].status \in {"ok", "UnsupportedPathPattern"}
       /\ out[1].status = "UnsupportedPathPattern"
            <=> PolicyRejects(arg_uri, arg_recursive)
  /\ (out[2] # NoOut /\ arg_recursive /\ "*" \in Range(arg_uri)) =>
       /\ out[2].status \in {"UnsupportedPathPattern", "UnsupportedProvider"}
       /\ out[2].status = "UnsupportedProvider"
            <=> parse_file_provider(directory_fmt(arg_uri))
                  \notin FILE_PROVIDERS

\* a recursive URI with a filename-level wildcard: the checker alone accepts
\* it, parse_uri rejects it once it is in directory form
C11_Witness ==
  /\ arg_recursive
  /\ FileNameOf(arg_uri) = <<"*">>
  /\ out[1] # NoOut /\ out[1].status = "ok"
  /\ out[2] # NoOut /\ out[2].status = "UnsupportedPathPattern"

-----------------------------------------------------------------------------
(* Module-level and static functions called on their own: call holds the   *)
(* function and its arguments, returned what it returned or raised.          *)

\* the frame of a call of a pure function
Returns(value) ==
  /\ returned = NoOut
  /\ returned' = value
  /\ UNCHANGED call
  /\ UNCHANGED uriVars
  /\ UNCHANGED tableVars
  /\ UNCHANGED submitVars
  /\ UNCHANGED passVars

CallInit(calls) ==
  /\ call \in calls
  /\ returned = NoOut
  /\ UriIdle
  /\ TableIdle
  /\ SubmitIdle
  /\ PassIdle

-----------------------------------------------------------------------------
(* parse_file_provider on URIs with and without a leading scheme.          *)

MaxScheme == 3

Repeat(c, n) == [i \in 1..n |-> c]
SchemeAlphabet == {"g", "s", "G", "1", "+"}
Schemes ==
  UNION {[1..n -> SchemeAlphabet] : n \in 0..MaxScheme}
  \cup { <<"f","i","l","e">>, <<"F","i","l","e">>, <<"f","t","p">>,
         <<"s","3">>, <<"g","s","2">>, <<"a",".","b","-","c">> }
  \cup {Repeat("a", n) : n \in (SchemeMaxLen - 1)..(SchemeMaxLen + 1)}
SchemeSeparators == {S_sep, <<":", "/">>, <<"/", "/">>, <<>>}
SchemeRests == {<<>>, <<"b", "/", "c">>}
SchemeUris ==
  {sch \o sep \o rest :
     sch \in Schemes, sep \in SchemeSeparators, rest \in SchemeRests}

\* one call of FileParamUtil.parse_file_provider(uri)
ParseFileProvider ==
  /\ call.fn = "parse_file_provider"
  /\ Returns([value |-> parse_file_provider(call.uri)])

InitProvider ==
  CallInit({[fn |-> "parse_file_provider", uri |-> u] : u \in SchemeUris})
NextProvider == ParseFileProvider
SpecProvider == InitProvider /\ [][NextProvider]_vars

\* uri starts with n characters among letters, digits, '+', '.', '-' that
\* '://' follows
TokenThenSep(uri, n) ==
  /\ Len(uri) >= n + 3
  /\ \A i \in 1..n : IsSchemeChar(uri[i])
  /\ SubSeq(uri, n + 1, n + 3) = <<":", "/", "/">>
\* the leading scheme tokens of 1 to 30 characters of a URI (at most one)
LeadingTokens(uri) ==
  {SubSeq(uri, 1, n) : n \in {k \in 1..30 : TokenThenSep(uri, k)}}
ProviderOutcomes == {P_GCS, P_LOCAL, "UnsupportedProvider"}

\* C12 as stated: detect_provider has three outcomes; a URI with a leading
\* scheme token of 1-30 characters among letters, digits, '+', '.', '-'
\* followed by '://' maps to cloud-object-storage when the scheme is 'gs', to
\* local when it is 'file' and fails with UnsupportedProvider for any other
\* scheme; a URI with no such token maps to local.
C12_DetectProvider ==
  returned # NoOut =>
    /\ returned.value \in ProviderOutcomes
    /\ \A tok \in LeadingTokens(call.uri) :
         returned.value = IF tok = <<"g", "s">> THEN P_GCS
                        ELSE IF tok = <<"f","i","l","e">> THEN P_LOCAL
                        ELSE "UnsupportedProvider"
    /\ LeadingTokens(call.uri) = {} => returned.value = P_LOCAL

\* the leading scheme tokens that start with a letter
LetterTokens(uri) == {tok \in LeadingTokens(uri) : IsAlpha(tok[1])}

\* C12 as amended: the scheme token has to start with a letter and is
\* compared in lower case: such a token followed by '://' maps to
\* cloud-object-storage when it is 'gs' in any case, to local when it is
\* 'file' in any case, and fails with UnsupportedProvider otherwise; a URI
\* with no such token, one whose token starts with a digit, '+', '.' or '-'
\* included, maps to local.
C12_DetectProviderLetterFirst ==
  returned # NoOut =>
    /\ returned.value \in ProviderOutcomes
    /\ \A tok \in LetterTokens(call.uri) :
         returned.value = IF ToLower(tok) = <<"g", "s">> THEN P_GCS
                        ELSE IF ToLower(tok) = <<"f","i","l","e">> THEN P_LOCAL
                        ELSE "UnsupportedProvider"
    /\ LetterTokens(call.uri) = {} => returned.value = P_LOCAL

\* a URI whose token of 31 scheme characters is no scheme, so that it is local
C12_Witness ==
  /\ returned # NoOut
  /\ StartsWith(call.uri, Repeat("a", SchemeMaxLen + 1) \o S_sep)
  /\ returned.value = P_LOCAL

-----------------------------------------------------------------------------
(* build_logging_param on absent, file and directory logging URIs.         *)

LogPrefixes ==
  { <<>>, <<"/">>, S_home, S_gs_scheme \o <<"b", "/">>, S_gs_scheme,
    <<"f","t","p",":","/","/">> }
LogSuffixes == {<<>>, S_log, S_log \o <<"/">>}
LogUris == {p \o b \o x : p \in LogPrefixes, b \in Bodies, x \in LogSuffixes}

\* one call of build_logging_param(logging_uri) in the environment env[1]
BuildLoggingParam ==
  /\ call.fn = "build_logging_param"
  /\ returned = NoOut
  /\ returned' = build_logging_param(call.logging_uri, env[1])
  /\ UNCHANGED <<call, arg_uri, arg_recursive, relative_path, env, out>>
  /\ UNCHANGED tableVars
  /\ UNCHANGED submitVars
  /\ UNCHANGED passVars

InitLogging ==
  /\ call \in {[fn |-> "build_logging_param", logging_uri |-> u] :
                 u \in LogUris}
  /\ returned = NoOut
  /\ arg_uri = <<>> /\ arg_recursive = FALSE /\ relative_path = <<>>
  /\ env \in {[r \in Runs |-> e] : e \in Envs}
  /\ out = <<>>
  /\ TableIdle
  /\ SubmitIdle
  /\ PassIdle
NextLogging == BuildLoggingParam
SpecLogging == InitLogging /\ [][NextLogging]_vars

\* what the claim says of the LoggingParam returned for a logging URI
LoggingShape(uri, param) ==
  IF uri = <<>> THEN param = LoggingParam(NoUri, NoProvider)
  ELSE /\ param.uri # NoUri
       /\ param.file_provider \in FILE_PROVIDERS
       /\ IF EndsWith(uri, S_log)
            THEN param.uri.basename = FileNameOf(uri)
            ELSE param.uri.basename = <<>>
       /\ "*" \notin Range(param.uri.uri)
UnsupportedScheme(uri) ==
  \E tok \in LetterTokens(uri) :
    ToLower(tok) \notin {<<"g", "s">>, <<"f","i","l","e">>}

\* C13 as stated: an absent logging URI yields the empty LoggingParam; a URI
\* ending in '.log' is resolved as a single file, any other URI as a
\* directory whose basename is empty; every logging URI that holds '*' fails
\* with UnsupportedPathPattern, and no LoggingParam returned has '*' in its
\* URI.
C13_LoggingParam ==
  returned # NoOut =>
    /\ call.logging_uri = <<>> => returned.status = "ok"
    /\ returned.status = "ok" => LoggingShape(call.logging_uri, returned.param)
    /\ "*" \in Range(call.logging_uri)
         => returned.status = "UnsupportedPathPattern"

\* C13 as amended: the same, but a logging URI that holds '*' fails with
\* UnsupportedProvider when its scheme is neither 'gs' nor 'file' (the
\* provider is detected before the path is looked at) and with
\* UnsupportedPathPattern otherwise.
C13_LoggingParamBySupportedProvider ==
  returned # NoOut =>
    /\ call.logging_uri = <<>> => returned.status = "ok"
    /\ returned.status = "ok" => LoggingShape(call.logging_uri, returned.param)
    /\ "*" \in Range(call.logging_uri) =>
         returned.status = IF UnsupportedScheme(call.logging_uri)
                             THEN "UnsupportedProvider"
                             ELSE "UnsupportedPathPattern"

\* a '.log' file whose name holds one '*': the path policy lets it through
\* and the check of the basename rejects it
C13_Witness ==
  /\ returned # NoOut
  /\ EndsWith(call.logging_uri, S_log)
  /\ "*" \in Range(FileNameOf(call.logging_uri))
  /\ validate_paths_or_fail(call.logging_uri, FALSE) = "ok"
  /\ parse_file_provider(call.logging_uri) = P_GCS
  /\ returned.status = "UnsupportedPathPattern"

-----------------------------------------------------------------------------
(* args_to_job_data on tokens with no, one and several '=' and with empty  *)
(* halves.                                                                 *)

CliEnvLabelArgs ==
  { [envs |-> <<>>, labels |-> <<>>],
    [envs |-> <<<<"A","=","1","=","2">>, <<"B">>>>,
     labels |-> <<<<"l","=","v">>>>],
    [envs |-> <<<<"C","=">>>>, labels |-> <<<<"l">>>>],
    [envs |-> <<<<"=","v">>>>, labels |-> <<>>],
    [envs |-> <<>>, labels |-> <<<<"=","v">>>>],
    [envs |-> <<<<"B">>>>, labels |-> <<<<"k","=","a","=","b">>>>] }
CliInputTokens ==
  { <<"g","s",":","/","/","b","/","a">>,
    <<"Y","=","g","s",":","/","/","b","/","q","=","r">>, <<"N","=">> }
CliInputRecursiveTokens == { <<"g","s",":","/","/","b","/","d">>, <<"R","=">> }
CliOutputTokens == { <<"g","s",":","/","/","b","/","o">>, <<"O","=">> }
CliOutputRecursiveTokens == { <<"P","=","/","d","/","q">>, <<"P","=">> }
CliFileArgLists(n) ==
  { [inputs |-> i, inputs_recursive |-> ir, outputs |-> o,
     outputs_recursive |-> orr] :
      i \in [1..n[1] -> CliInputTokens],
      ir \in [1..n[2] -> CliInputRecursiveTokens],
      o \in [1..n[3] -> CliOutputTokens],
      orr \in [1..n[4] -> CliOutputRecursiveTokens] }
CliCommandLines ==
  { [envs |-> el.envs, labels |-> el.labels, inputs |-> f.inputs,
     inputs_recursive |-> f.inputs_recursive, outputs |-> f.outputs,
     outputs_recursive |-> f.outputs_recursive] :
      el \in CliEnvLabelArgs,
      f \in UNION {CliFileArgLists(n) : n \in ArgCounts} }

InitCli ==
  /\ CompilerIdle
  /\ header = <<>>
  /\ tasks = <<>>
  /\ cli \in CliCommandLines
  /\ pc = "args"
NextCli == ArgsToJobData
SpecCli == InitCli /\ [][NextCli]_vars

\* the halves of a token around its first '='
HasEq(tok) == "=" \in Range(tok)
EqAt(tok) ==
  CHOOSE i \in 1..Len(tok) : tok[i] = "=" /\ \A j \in 1..(i - 1) : tok[j] # "="
BeforeEq(tok) == SubSeq(tok, 1, EqAt(tok) - 1)
AfterEq(tok) == SubSeq(tok, EqAt(tok) + 1, Len(tok))

\* env and label tokens: the key is the token up to the first '=', the value
\* what follows it, none when there is no '='
PairKey(tok) == IF HasEq(tok) THEN BeforeEq(tok) ELSE tok
PairValue(tok) == IF HasEq(tok) THEN AfterEq(tok) ELSE None
PairsMapped(params, toks, cls) ==
  /\ Len(params) = Len(toks)
  /\ \A j \in 1..Len(toks) :
       /\ params[j].cls = cls
       /\ params[j].name = PairKey(toks[j])
       /\ params[j].value = PairValue(toks[j])

\* file tokens: the value is what follows the first '=', the whole token when
\* there is none; the token is keyed when a key stands before the '='
FileValue(tok) == IF HasEq(tok) THEN AfterEq(tok) ELSE tok
FileKeyed(tok) == HasEq(tok) /\ BeforeEq(tok) # <<>>
CliTokens(role) ==
  IF role = "inputs" THEN cli.inputs \o cli.inputs_recursive
  ELSE cli.outputs \o cli.outputs_recursive
CliPlain(role) == IF role = "inputs" THEN cli.inputs ELSE cli.outputs
AutoNameAt(role, j) ==
  AutoPrefix(role)
    \o IntToStr(Cardinality({k \in 1..(j - 1) : ~FileKeyed(CliTokens(role)[k])}))
FilesMapped(params, role) ==
  /\ Len(params) = Len(CliTokens(role))
  /\ \A j \in 1..Len(params) :
       /\ params[j].cls = ParamClass(role)
       /\ params[j].value = FileValue(CliTokens(role)[j])
       /\ params[j].recursive = (j > Len(CliPlain(role)))
       /\ params[j].name = IF FileKeyed(CliTokens(role)[j])
                             THEN BeforeEq(CliTokens(role)[j])
                             ELSE AutoNameAt(role, j)
CliFinished == DOMAIN cli # {} /\ pc \in {"done", "failed"}

\* C14: the command-line compiler returns exactly one task; every token is
\* split on its first '='; an env or label token without '=' has the value
\* none and one with an empty key fails; a file token without '=' gets an
\* auto-generated name and one whose value half is empty fails; inputs (and
\* outputs) list the non-recursive tokens in order, then the recursive ones,
\* the auto-name counter running across both lists.
C14_CliCompiler ==
  CliFinished =>
    /\ pc = "done" =>
         /\ Len(job_data) = 1
         /\ PairsMapped(job_data[1].envs, cli.envs, "EnvParam")
         /\ PairsMapped(job_data[1].labels, cli.labels, "LabelParam")
         /\ FilesMapped(job_data[1].inputs, "inputs")
         /\ FilesMapped(job_data[1].outputs, "outputs")
    /\ (\E tok \in Range(cli.envs) \cup Range(cli.labels) :
          PairKey(tok) = <<>>) => pc = "failed"
    /\ (\E role \in Roles : \E tok \in Range(CliTokens(role)) :
          FileValue(tok) = <<>>) => pc = "failed"

\* what holds of the code: the same with the failure on an empty value half
\* only for the non-recursive file tokens
CliCompilerNonRecursive ==
  CliFinished =>
    /\ pc = "done" =>
         /\ Len(job_data) = 1
         /\ PairsMapped(job_data[1].envs, cli.envs, "EnvParam")
         /\ PairsMapped(job_data[1].labels, cli.labels, "LabelParam")
         /\ FilesMapped(job_data[1].inputs, "inputs")
         /\ FilesMapped(job_data[1].outputs, "outputs")
    /\ (\E tok \in Range(cli.envs) \cup Range(cli.labels) :
          PairKey(tok) = <<>>) => pc = "failed"
    /\ (\E role \in Roles : \E tok \in Range(CliPlain(role)) :
          FileValue(tok) = <<>>) => pc = "failed"

-----------------------------------------------------------------------------
(* age_to_create_time.  Python integers have no width; a number of seconds  *)
(* is held as [day, sec], standing for day * 86400 + sec with sec in       *)
(* 0..86399, so that every value the function handles has parts of 32      *)
(* bits.  A datetime is the days, seconds and microseconds since           *)
(* 1970-01-01 00:00:00; a timedelta is normalized as python does, days     *)
(* and seconds with the seconds in 0..86399.                               *)

Num(day, sec) == [day |-> day, sec |-> sec]
\* -n
Neg(n) ==
  IF n.sec = 0 THEN Num(0 - n.day, 0) ELSE Num(0 - n.day - 1, 86400 - n.sec)
\* n + 1
Succ(n) == IF n.sec = 86399 THEN Num(n.day + 1, 0) ELSE Num(n.day, n.sec + 1)
\* a - b
Sub(a, b) ==
  IF a.sec >= b.sec THEN Num(a.day - b.day, a.sec - b.sec)
  ELSE Num(a.day - b.day - 1, a.sec - b.sec + 86400)
\* a >= b
AtLeast(a, b) == a.day > b.day \/ (a.day = b.day /\ a.sec >= b.sec)

\* the value of a string of digits: 10 * (the digits before the last) + the
\* last digit
Shifted(n, d) ==
  Num(10 * n.day + (10 * n.sec + d) \div 86400, (10 * n.sec + d) % 86400)
RECURSIVE DigitsValue(_)
DigitsValue(s) ==
  IF s = <<>> THEN Num(0, 0)
  ELSE Shifted(DigitsValue(SubSeq(s, 1, Len(s) - 1)),
               CHOOSE d \in 0..9 : Digits[d + 1] = s[Len(s)])
IsDigits(s) == s # <<>> /\ \A i \in 1..Len(s) : IsDigit(s[i])

\* the characters C's isspace() accepts: blank, tab, newline, carriage return,
\* form feed, vertical tab
Whitespace == {" ", "\t", "\n", "\r", "\f", ""}
\* int(s) of python 2: whitespace is dropped at both ends and between the
\* sign and the digits; one sign may precede the digits
UnsignedInt(s) ==
  IF ~IsDigits(s) THEN [status |-> "ValueError"]
  ELSE [status |-> "ok", value |-> DigitsValue(s)]
Negated(parsed) ==
  IF parsed.status # "ok" THEN parsed
  ELSE [status |-> "ok", value |-> Neg(parsed.value)]
SignedInt(s) ==
  IF s # <<>> /\ s[1] = "-"
    THEN Negated(UnsignedInt(LStrip(Tail(s), Whitespace)))
  ELSE IF s # <<>> /\ s[1] = "+"
    THEN UnsignedInt(LStrip(Tail(s), Whitespace))
  ELSE UnsignedInt(s)
PyInt(s) == SignedInt(LStrip(RStrip(s, Whitespace), Whitespace))

\* datetime.timedelta(<unit>=n) for the unit letters of lines 928-937: the
\* normalized interval, or OverflowError when its days are outside
\* -999999999..999999999
TimeDelta(days, secs) ==
  IF days > 999999999 \/ days < -999999999 THEN [status |-> "OverflowError"]
  ELSE [status |-> "ok", days |-> days, secs |-> secs]
\* n units of u seconds make more than 999999999 days, whatever n.sec is
TooLong(n, u) ==
  n.day > 999999999 \div u \/ n.day < 0 - (999999999 \div u) - 1
\* timedelta(minutes=n), timedelta(hours=n): n units of u seconds, u < 86400
SubDay(n, u) ==
  IF TooLong(n, u) THEN [status |-> "OverflowError"]
  ELSE TimeDelta(n.day * u + (n.sec * u) \div 86400, (n.sec * u) % 86400)
\* timedelta(days=n), timedelta(weeks=n): n units of k days
WholeDays(n, k) ==
  IF TooLong(n, 86400 * k) THEN [status |-> "OverflowError"]
  ELSE TimeDelta((n.day * 86400 + n.sec) * k, 0)
IntervalOf_weeksAsDays(last_char, n) ==
  IF last_char = "s" THEN TimeDelta(n.day, n.sec)
  ELSE IF last_char = "m" THEN SubDay(n, 60)
  ELSE IF last_char = "h" THEN SubDay(n, 3600)
  ELSE WholeDays(n, 1)
IntervalOf(last_char, n) ==
  IF last_char = "s" THEN TimeDelta(n.day, n.sec)
  ELSE IF last_char = "m" THEN SubDay(n, 60)
  ELSE IF last_char = "h" THEN SubDay(n, 3600)
  ELSE IF last_char = "d" THEN WholeDays(n, 1)
  ELSE WholeDays(n, 7)

\* from_time - interval (line 939): the datetime, or OverflowError outside the
\* years 1 to 9999
DateTime(day, sec, us) ==
  IF day < -719162 \/ day > 2932896 THEN [status |-> "OverflowError"]
  ELSE [status |-> "ok", day |-> day, sec |-> sec, us |-> us]
Minus(from_time, interval) ==
  IF from_time.sec >= interval.secs
    THEN DateTime(from_time.day - interval.days,
                  from_time.sec - interval.secs, from_time.us)
    ELSE DateTime(from_time.day - interval.days - 1,
                  from_time.sec - interval.secs + 86400, from_time.us)

\* int((start - epoch).total_seconds()) (lines 940-942).  total_seconds() is
\* the double nearest to whole + us / 10^6, and int() rounds it toward zero.
\* Doubles of magnitude 2^k to 2^(k+1) are 2^(k-52) apart, so a fraction of
\* less than 2^(k-53) seconds on either side of a whole number is lost: up to
\* 1, 3, 7, 15 microseconds from 2^34, 2^35, 2^36, 2^37 seconds on, none
\* below 2^34 (no time of the years 1 to 9999 is 2^38 seconds from the epoch).
LostMicros(magnitude) ==
  IF AtLeast(magnitude, Num(1590728, 54272)) THEN 15
  ELSE IF AtLeast(magnitude, Num(795364, 27136)) THEN 7
  ELSE IF AtLeast(magnitude, Num(397682, 13568)) THEN 3
  ELSE IF AtLeast(magnitude, Num(198841, 6784)) THEN 1
  ELSE 0
\* int() of the double nearest to whole + us / 10^6.  At or after the epoch
\* the double is whole + 1 when the fraction is that close to 1, and int()
\* drops any other fraction; before the epoch the double is whole when the
\* fraction is that close to 0, and int() rounds any other up to whole + 1.
TowardZero(whole, us) ==
  IF us = 0 THEN whole
  ELSE IF whole.day >= 0
    THEN IF 1000000 - us <= LostMicros(whole) THEN Succ(whole) ELSE whole
  ELSE IF us <= LostMicros(Sub(Neg(whole), Num(0, 1))) THEN whole
  ELSE Succ(whole)
EpochSeconds(t) == TowardZero(Num(t.day, t.sec), t.us)

\* except (ValueError, OverflowError): raise ValueError (lines 946-947)
AgeError == [status |-> "InvalidAgeSpec"]
AgeStart(start) ==
  IF start.status # "ok" THEN AgeError
  ELSE [status |-> "ok", value |-> EpochSeconds(start)]
AgeInterval(from_time, interval) ==
  IF interval.status # "ok" THEN AgeError
  ELSE AgeStart(Minus(from_time, interval))
AgeWithUnit(last_char, parsed, from_time) ==
  IF parsed.status # "ok" THEN AgeError
  ELSE AgeInterval(from_time, IntervalOf(last_char, parsed.value))
AgeBare(parsed) ==
  IF parsed.status # "ok" THEN AgeError
  ELSE [status |-> "ok", value |-> parsed.value]

\* age_to_create_time(age, from_time)
age_to_create_time(age, from_time) ==
  IF ~Truthy(age) THEN [status |-> "ok", value |-> None]
  ELSE IF age[Len(age)] \in {"s", "m", "h", "d", "w"}
    THEN AgeWithUnit(age[Len(age)], PyInt(Take(age, Len(age) - 1)), from_time)
  ELSE AgeBare(PyInt(age))

MaxAgeDigits == 2

\* ages: every signed count of up to MaxAgeDigits digits with every suffix;
\* malformed ages; counts with whitespace; counts at the two limits (an
\* interval of 999999999 days, a date of the years 1 to 9999) in every unit;
\* counts that take the time 2^34 seconds and more from the epoch.  No age
\* has more than 14 digits.
AgeNumerals ==
  {sign \o ds : sign \in {<<>>, <<"-">>},
                ds \in UNION {[1..n -> {"0", "1", "9"}] : n \in 1..MaxAgeDigits}}
AgeSuffixes ==
  { <<>>, <<"s">>, <<"m">>, <<"h">>, <<"d">>, <<"w">>, <<"x">>, <<"y">> }
Ages ==
  {num \o suffix : num \in AgeNumerals, suffix \in AgeSuffixes}
  \cup { <<>>, <<"b","o","g","u","s">>, <<"h">>, <<"1",".","5","h">>,
         <<" ","1","0"," ">>, <<"1","0"," ","h">>, <<"+","5">>,
         <<"\t","1","0">>, <<"1","0","\n">>, <<"-"," ","5">>,
         <<"\t","5","h">>, <<"\r","1","\f","d">>, <<"+","","1","w">>,
         <<"-","\n">>, <<"1"," ","0">>, <<"-"," ","-","5">>,
         <<"1","h","2">>, <<"-","-","1">>, <<"1","2","0","s">>,
         <<"2","0","0","0","0","d">>,
         <<"1","2","3","4","5","6","7","8","9","0","1","2","3","4">>,
         <<"-","9","9","9","9","9","9","9","9","9","9","9","9","9","9">>,
         <<"2","5","0","0","0","0","d">>, <<"-","2","5","0","0","0","0","d">>,
         <<"4","0","0","0","0","0","d">>, <<"-","4","0","0","0","0","0","d">>,
         <<"1","0","0","0","0","0","w">>, <<"-","3","0","0","0","0","0","w">>,
         <<"7","1","9","1","6","2","d">>, <<"7","1","9","1","6","3","d">>,
         <<"-","2","9","3","2","8","9","6","d">>,
         <<"-","2","9","3","2","8","9","7","d">>,
         <<"2","1","4","7","4","8","3","6","4","7","s">>,
         <<"-","2","1","4","7","4","8","3","6","4","7","s">>,
         <<"2","1","4","7","4","8","3","6","4","7","m">>,
         <<"-","2","1","4","7","4","8","3","6","4","7","m">>,
         <<"2","1","4","7","4","8","3","6","4","7","h">>,
         <<"-","7","0","0","0","0","0","0","0","h">>,
         <<"8","6","3","9","9","9","9","9","9","9","9","9","9","9","s">>,
         <<"8","6","4","0","0","0","0","0","0","0","0","0","0","0","s">>,
         <<"-","8","6","4","0","0","0","0","0","0","0","0","0","0","1","s">>,
         <<"1","4","4","0","0","0","0","0","0","0","0","0","0","m">>,
         <<"2","4","0","0","0","0","0","0","0","0","0","h">>,
         <<"9","9","9","9","9","9","9","9","9","9","9","9","9","9","w">>,
         <<"9","9","9","9","9","9","9","9","9","d">>,
         <<"-","9","9","9","9","9","9","9","9","9","d">>,
         <<"1","0","0","0","0","0","0","0","0","0","d">>,
         <<"1","4","2","8","5","7","1","4","2","w">>,
         <<"1","4","2","8","5","7","1","4","3","w">> }
\* reference times, in days, seconds and microseconds: the epoch, one, two
\* and 999999 microseconds after it, a second into the next day, noon of
\* 2016-07-18 and half a second later, a microsecond before
\* 1969-12-31 12:00:01, datetime.min and datetime.max
FromTimes ==
  { [day |-> 0, sec |-> 0, us |-> 0], [day |-> 0, sec |-> 0, us |-> 1],
    [day |-> 0, sec |-> 0, us |-> 2], [day |-> 0, sec |-> 0, us |-> 999999],
    [day |-> 1, sec |-> 1, us |-> 0],
    [day |-> 17000, sec |-> 43200, us |-> 0],
    [day |-> 17000, sec |-> 43200, us |-> 500000],
    [day |-> -1, sec |-> 43200, us |-> 999999],
    [day |-> -719162, sec |-> 0, us |-> 0],
    [day |-> 2932896, sec |-> 86399, us |-> 999999] }

\* one call of age_to_create_time(age, from_time)
AgeToCreateTime ==
  /\ call.fn = "age_to_create_time"
  /\ Returns(age_to_create_time(call.age, call.from_time))

InitAge ==
  CallInit({[fn |-> "age_to_create_time", age |-> a, from_time |-> t] :
              a \in Ages, t \in FromTimes})
NextAge == AgeToCreateTime
SpecAge == InitAge /\ [][NextAge]_vars

\* the forms of an age the claim tells apart
UnitSeconds(unit) ==
  IF unit = "s" THEN 1
  ELSE IF unit = "m" THEN 60
  ELSE IF unit = "h" THEN 3600
  ELSE IF unit = "d" THEN 86400
  ELSE 604800
IsBareInteger(age) == PyInt(age).status = "ok"
AgeUnit(age) == age[Len(age)]
AgeCount(age) == PyInt(Take(age, Len(age) - 1))
IsCountWithUnit(age) ==
  /\ Len(age) >= 2
  /\ AgeUnit(age) \in {"s", "m", "h", "d", "w"}
  /\ AgeCount(age).status = "ok"
AgeValueIs(n) == returned.status = "ok" /\ returned.value = n
\* n * u seconds, for a count n whose product has parts of 32 bits
Times(n, u) ==
  IF u < 86400
    THEN Num(n.day * u + (n.sec * u) \div 86400, (n.sec * u) % 86400)
    ELSE Num((n.day * 86400 + n.sec) * (u \div 86400), 0)
CountFits(n, u) ==
  n.day <= 999999999 \div u /\ n.day >= 0 - (999999999 \div u) - 1
\* the time t minus p seconds, a time like t
Earlier(t, p) ==
  [day |-> Sub(Num(t.day, t.sec), p).day,
   sec |-> Sub(Num(t.day, t.sec), p).sec, us |-> t.us]
\* epoch_seconds of the claim: the seconds from 1970-01-01 00:00:00 to t as
\* the code takes them of a time, int((t - epoch).total_seconds())
epoch_seconds(t) == EpochSeconds(t)

\* C15 as stated: an empty age returns none; a bare integer n returns n;
\* '<n><unit>' with unit in s, m, h, d, w returns epoch_seconds(T) - n*u with
\* u = 1, 60, 3600, 86400, 604800; every other age fails with InvalidAgeSpec.
C15_ParseAge ==
  returned # NoOut =>
    IF call.age = <<>> THEN AgeValueIs(None)
    ELSE IF IsBareInteger(call.age)
      THEN AgeValueIs(PyInt(call.age).value)
    ELSE IF IsCountWithUnit(call.age)
      THEN /\ returned.status = "ok"
           /\ returned.value =
                Sub(epoch_seconds(call.from_time),
                    Times(AgeCount(call.age).value,
                          UnitSeconds(AgeUnit(call.age))))
    ELSE returned.status = "InvalidAgeSpec"

\* the interval of p seconds is one of -999999999 to 999999999 days (in
\* days and seconds, as a timedelta holds it) and t minus it is a time of the
\* years 1 to 9999
InYears(t) == t.day >= -719162 /\ t.day <= 2932896
IntervalFits(p) == p.day >= -999999999 /\ p.day <= 999999999
Representable(n, u, t) ==
  /\ CountFits(n, u)
  /\ IntervalFits(Times(n, u))
  /\ InYears(Earlier(t, Times(n, u)))

\* C15 as amended: the same, but '<n><unit>' returns the epoch seconds of the
\* time T - n*u, taken as the code takes them: the seconds from the epoch to
\* that time as the nearest double, rounded toward zero (which is
\* epoch_seconds(T) - n*u whenever T is on a whole second), and only when the
\* interval and the date T minus the interval are representable; when they
\* are not it fails with InvalidAgeSpec.
C15_ParseAgeRepresentable ==
  returned # NoOut =>
    IF call.age = <<>> THEN AgeValueIs(None)
    ELSE IF IsBareInteger(call.age)
      THEN AgeValueIs(PyInt(call.age).value)
    ELSE IF IsCountWithUnit(call.age)
      THEN IF Representable(AgeCount(call.age).value,
                            UnitSeconds(AgeUnit(call.age)), call.from_time)
             THEN AgeValueIs(epoch_seconds(
                    Earlier(call.from_time,
                            Times(AgeCount(call.age).value,
                                  UnitSeconds(AgeUnit(call.age))))))
             ELSE returned.status = "InvalidAgeSpec"
    ELSE returned.status = "InvalidAgeSpec"

\* '1w' at 2016-07-18 12:00:00: noon of 2016-07-11, 1468238400 seconds
\* (16993 days and 43200 seconds) from the epoch
C15_Witness ==
  /\ returned # NoOut
  /\ call.age = <<"1", "w">>
  /\ call.from_time = [day |-> 17000, sec |-> 43200, us |-> 0]
  /\ returned.status = "ok"
  /\ returned.value = Num(16993, 43200)

-----------------------------------------------------------------------------
(* validate_label of LabelParam and of a subclass that allows reserved     *)
(* keys, on keys and values around every rule.                             *)

MaxLabel == 2

LabelAlphabet == {"a", "A", "1", "-", "_", "\n"}
LabelStrings ==
  UNION {[1..n -> LabelAlphabet] : n \in 0..MaxLabel}
  \cup { <<"s","a","m","p","l","e","-","1">>,
         <<"S","a","m","p","l","e","_","1">>,
         Repeat("a", LabelMaxLen), Repeat("a", LabelMaxLen + 1),
         Repeat("a", LabelMaxLen) \o <<"\n">> }
LabelKeys ==
  LabelStrings \cup RESERVED_LABELS
    \cup { <<"j","o","b","-","i","d","s">>, <<"j","o","b","-","i","d","\n">> }
LabelValues ==
  {None} \cup LabelStrings

\* one call of cls.validate_label(name, value)
ValidateLabel ==
  /\ call.fn = "validate_label"
  /\ Returns([status |-> validate_label_of(call.allow_reserved_keys,
                                           call.name, call.value)])

InitLabel ==
  CallInit({[fn |-> "validate_label", allow_reserved_keys |-> a,
             name |-> k, value |-> v] :
              a \in BOOLEAN, k \in LabelKeys, v \in LabelValues})
NextLabel == ValidateLabel
SpecLabel == InitLabel /\ [][NextLabel]_vars

\* 1 to 63 characters: a lowercase letter, then lowercase letters, digits,
\* '-' and '_'
LabelRule(s) ==
  /\ Len(s) >= 1 /\ Len(s) <= 63
  /\ IsLower(s[1])
  /\ \A i \in 2..Len(s) : IsLower(s[i]) \/ IsDigit(s[i]) \/ s[i] \in {"-", "_"}
ReservedKeys ==
  { <<"j","o","b","-","n","a","m","e">>, <<"j","o","b","-","i","d">>,
    <<"u","s","e","r","-","i","d">>, <<"t","a","s","k","-","i","d">>,
    <<"d","s","u","b","-","v","e","r","s","i","o","n">> }
LabelAccepted(allow, key, value) ==
  /\ LabelRule(key)
  /\ value = None \/ value = <<>> \/ LabelRule(value)
  /\ key \notin ReservedKeys \/ allow

\* C16: validate_label(key, value) succeeds if and only if the key has 1 to
\* 63 characters and matches ^[a-z][-_a-z0-9]*$, the value is absent or empty
\* or follows the same rule, and the key is not reserved unless the class
\* allows reserved keys; it fails with InvalidLabel otherwise.
C16_ValidateLabel ==
  returned # NoOut =>
    /\ returned.status \in {"ok", "InvalidLabel"}
    /\ returned.status = "ok"
         <=> LabelAccepted(call.allow_reserved_keys, call.name, call.value)

\* what holds of the code: the rule is applied to the key and to the value
\* with one newline at their end left aside
DropNewline(s) ==
  IF s # None /\ s # <<>> /\ s[Len(s)] = "\n"
    THEN SubSeq(s, 1, Len(s) - 1) ELSE s
LabelRuleBeforeNewline(s) == Len(s) <= 63 /\ LabelRule(DropNewline(s))
ValidateLabelBeforeNewline ==
  returned # NoOut =>
    /\ returned.status \in {"ok", "InvalidLabel"}
    /\ returned.status = "ok"
         <=> /\ LabelRuleBeforeNewline(call.name)
             /\ \/ call.value = None \/ call.value = <<>>
                \/ LabelRuleBeforeNewline(call.value)
             /\ call.name \notin ReservedKeys \/ call.allow_reserved_keys

-----------------------------------------------------------------------------
(* directory_fmt, applied once and then again to what it returned.         *)

MaxDirLen == 4

DirAlphabet == {"a", "/", "\n"}
Directories ==
  {p \o b : p \in {<<>>, S_gs_scheme},
            b \in UNION {[1..n -> DirAlphabet] : n \in 0..MaxDirLen}}

\* directory_fmt(directory)
DirectoryFmt ==
  /\ call.fn = "directory_fmt"
  /\ Returns([value |-> directory_fmt(call.directory)])

\* directory_fmt on the string the first call returned
DirectoryFmtAgain ==
  /\ call.fn = "directory_fmt"
  /\ returned # NoOut
  /\ "again" \notin DOMAIN returned
  /\ returned' = [value |-> returned.value,
                  again |-> directory_fmt(returned.value)]
  /\ UNCHANGED call
  /\ UNCHANGED uriVars
  /\ UNCHANGED tableVars
  /\ UNCHANGED submitVars
  /\ UNCHANGED passVars

InitDirFmt ==
  CallInit({[fn |-> "directory_fmt", directory |-> d] : d \in Directories})
NextDirFmt == DirectoryFmt \/ DirectoryFmtAgain
SpecDirFmt == InitDirFmt /\ [][NextDirFmt]_vars

OneTrailingSlash(s) ==
  /\ Len(s) >= 1
  /\ s[Len(s)] = "/"
  /\ Len(s) >= 2 => s[Len(s) - 1] # "/"

\* C17: for every string p, directory_fmt(p) ends with '/' and not with
\* '//', and directory_fmt(directory_fmt(p)) = directory_fmt(p).
C17_DirectoryFmtIdempotent ==
  returned # NoOut =>
    /\ OneTrailingSlash(returned.value)
    /\ "again" \in DOMAIN returned => returned.again = returned.value

\* a string that ends in several '/' and is not made of '/' only, formatted
\* twice
C17_Witness ==
  /\ returned # NoOut
  /\ "again" \in DOMAIN returned
  /\ Len(call.directory) >= 3
  /\ call.directory[1] = "a"
  /\ SubSeq(call.directory, Len(call.directory) - 1, Len(call.directory))
       = <<"/", "/">>
  /\ Len(returned.value) < Len(call.directory)

-----------------------------------------------------------------------------
(* get_variable_name driven by two compilation passes at once.  The        *)
(* factories are numbered: auto_index maps a factory to its _auto_index.   *)
(* sync tells how the callers share them: "none" (one factory, no          *)
(* synchronization), "lock" (one factory, the callers hold a lock of their *)
(* own around each call), "own" (one factory per pass).  The statement of  *)
(* line 283 reads the attribute and writes it back in separate steps.      *)

MaxCalls == 2

Passes == {1, 2}
Unnamed == None
\* the names a pass asks for: unnamed parameters, a named one first or not
PassNames ==
  {[i \in 1..k |-> Unnamed] : k \in 1..MaxCalls}
    \cup {<<<<"X">>>> \o [i \in 1..k |-> Unnamed] : k \in 1..(MaxCalls - 1)}

\* the factory a pass was given
FactoryOf_shared(p) == 1
FactoryOf(p) == IF sync = "own" THEN p ELSE 1

\* the callers' lock: free, or held by the pass that is inside the call
MayEnter(p) == sync = "lock" => lock = p
AfterReturn == IF sync = "lock" THEN "release" ELSE "call"

PassFrame ==
  /\ UNCHANGED <<header, rows, tasks, cli, job_params, job_data, line_num,
                 diag, pc, err>>
  /\ UNCHANGED uriVars
  /\ UNCHANGED submitVars
  /\ UNCHANGED callVars

\* a caller takes the lock before it calls get_variable_name
Acquire(p) ==
  /\ sync = "lock" /\ lock = 0
  /\ passes[p].pc = "call" /\ passes[p].todo # <<>>
  /\ lock' = p
  /\ UNCHANGED <<sync, passes, auto_index>>
  /\ PassFrame

\* line 281: 'if not name'; a given name is returned as it is (line 284)
TestName(p) ==
  /\ passes[p].pc = "call" /\ passes[p].todo # <<>>
  /\ MayEnter(p)
  /\ IF Truthy(Head(passes[p].todo))
       THEN passes' = [passes EXCEPT
                         ![p].names = Append(@, [name |-> Head(passes[p].todo),
                                                 auto |-> FALSE]),
                         ![p].todo = Tail(@),
                         ![p].pc = AfterReturn]
       ELSE passes' = [passes EXCEPT ![p].pc = "format"]
  /\ UNCHANGED <<sync, lock, auto_index>>
  /\ PassFrame

\* line 282: name = '%s%s' % (self._auto_prefix, self._auto_index)
FormatName(p) ==
  /\ passes[p].pc = "format"
  /\ passes' = [passes EXCEPT
                  ![p].name = AUTO_PREFIX_INPUT
                                \o IntToStr(auto_index[FactoryOf(p)]),
                  ![p].pc = "load"]
  /\ UNCHANGED <<sync, lock, auto_index>>
  /\ PassFrame

\* line 283, first half: self._auto_index is read
LoadIndex(p) ==
  /\ passes[p].pc = "load"
  /\ passes' = [passes EXCEPT ![p].loaded = auto_index[FactoryOf(p)],
                              ![p].pc = "store"]
  /\ UNCHANGED <<sync, lock, auto_index>>
  /\ PassFrame

\* line 283, second half: the sum is written back; line 284: return name
StoreIndex(p) ==
  /\ passes[p].pc = "store"
  /\ auto_index' = [auto_index EXCEPT ![FactoryOf(p)] = passes[p].loaded + 1]
  /\ passes' = [passes EXCEPT
                  ![p].names = Append(@, [name |-> passes[p].name,
                                          auto |-> TRUE]),
                  ![p].todo = Tail(@),
                  ![p].pc = AfterReturn]
  /\ UNCHANGED <<sync, lock>>
  /\ PassFrame

\* the caller gives the lock back after the call
Release(p) ==
  /\ passes[p].pc = "release" /\ lock = p
  /\ lock' = 0
  /\ passes' = [passes EXCEPT ![p].pc = "call"]
  /\ UNCHANGED <<sync, auto_index>>
  /\ PassFrame

InitPasses ==
  /\ sync \in {"none", "lock", "own"}
  /\ lock = 0
  /\ passes \in [Passes -> {[todo |-> t, pc |-> "call", name |-> <<>>,
                             loaded |-> 0, names |-> <<>>] : t \in PassNames}]
  /\ auto_index = [f \in Passes |-> 0]
  /\ header = <<>> /\ rows = <<>> /\ tasks = <<>> /\ cli = <<>>
  /\ job_params = <<>> /\ job_data = <<>> /\ line_num = 0 /\ diag = <<>>
  /\ pc = "idle" /\ err = ""
  /\ UriIdle
  /\ SubmitIdle
  /\ CallIdle
NextPasses ==
  \E p \in Passes :
    \/ Acquire(p)
    \/ TestName(p)
    \/ FormatName(p)
    \/ LoadIndex(p)
    \/ StoreIndex(p)
    \/ Release(p)
SpecPasses == InitPasses /\ [][NextPasses]_vars

\* the auto-generated names a factory has handed out: (pass, position) pairs
Handed(f) ==
  {s \in Passes \X (1..(2 * MaxCalls)) :
     /\ FactoryOf(s[1]) = f
     /\ s[2] <= Len(passes[s[1]].names)
     /\ passes[s[1]].names[s[2]].auto}
HandedName(s) == passes[s[1]].names[s[2]].name
Collision(f) ==
  \E s, r \in Handed(f) : s # r /\ HandedName(s) = HandedName(r)
AllReturned == \A p \in Passes : passes[p].todo = <<>>

\* C18: with a lock around each call of get_variable_name, or with one
\* factory per pass, no two auto-generated names of a factory are equal and
\* no increment is lost: the counter of a factory is the number of names it
\* has handed out.  (That both passes can get the same name from a shared
\* factory without synchronization, one increment being lost, is the state
\* C18_Witness.)
C18_SynchronizedCounter ==
  (DOMAIN passes # {} /\ sync \in {"lock", "own"}) =>
    \A f \in Passes :
      /\ ~Collision(f)
      /\ auto_index[f] = Cardinality(Handed(f))

\* one shared factory, no synchronization: both passes asked for one
\* auto-generated name, both got INPUT_0, and the counter stands at 1
C18_Witness ==
  /\ DOMAIN passes # {}
  /\ sync = "none"
  /\ AllReturned
  /\ \A p \in Passes :
       passes[p].names = <<[name |-> AUTO_PREFIX_INPUT \o <<"0">>,
                            auto |-> TRUE]>>
  /\ auto_index[1] = 1

-----------------------------------------------------------------------------
(* The validator on a job whose logging parameter was built from an absent *)
(* logging URI, under every logging whitelist of real providers.           *)

InitNoLogging ==
  /\ UriIdle
  /\ TableIdle
  /\ CallIdle
  /\ PassIdle
  /\ logging = build_logging_param(<<>>, EnvA).param
  /\ all_task_data \in {TaskData(shapes) : shapes \in SeqsUpTo(TaskShapes, MaxTasks)}
  /\ provider_name = "MYPROVIDER"
  /\ whitelist \in { [inputs |-> ip, outputs |-> op, logging |-> lp] :
                       ip \in {{P_GCS}, {P_GCS, P_LOCAL}},
                       op \in {{P_GCS}, {P_GCS, P_LOCAL}},
                       lp \in SUBSET FILE_PROVIDERS }
  /\ verdict = NoOut
SpecNoLogging == InitNoLogging /\ [][NextSubmit]_vars

\* C19: the LoggingParam built for an absent logging URI has no URI and no
\* provider, and under a logging whitelist made of local and
\* cloud-object-storage only the validator rejects the job with the violation
\* for 'logging' (path None), whatever its tasks hold.
C19_NoLoggingRejected ==
  (verdict # NoOut /\ logging.uri = NoUri) =>
    /\ logging.file_provider \notin {P_LOCAL, P_GCS}
    /\ whitelist.logging \subseteq {P_LOCAL, P_GCS} =>
         /\ verdict.status = "ProviderNotWhitelisted"
         /\ verdict.argname = <<"l","o","g","g","i","n","g">>
         /\ verdict.path = <<"N","o","n","e">>
         /\ verdict.provider = provider_name

\* no logging configured, both providers allowed for logging, and a task with
\* a violation of its own: the logging violation is the one reported
C19_Witness ==
  /\ verdict # NoOut
  /\ logging.uri = NoUri
  /\ whitelist.logging = {P_LOCAL, P_GCS}
  /\ \E s \in ParamSites : SiteViolates(s)
  /\ verdict.status = "ProviderNotWhitelisted"
  /\ verdict.argname = <<"l","o","g","g","i","n","g">>

====
